---------------------------- MODULE Spec2Model ----------------------------
(***************************************************************************)
(* LadderUp 1v1 interview practice: the matchmaking queue                  *)
(* (src/src/server_comps/matchmaking.py, websocketserver.py) and the match *)
(* room (src/src/server_comps/match_room.py): the room record in the       *)
(* shared store, readiness, the countdown timer task with end-of-match     *)
(* grading, the connection registry and the HTTP / WebSocket entry points. *)
(*                                                                         *)
(* Coroutines are modelled at the granularity of their awaits.  A step of  *)
(* a coroutine is the operation of the await it is suspended in (a store   *)
(* command, a grader call, the sends of a broadcast) followed by the       *)
(* synchronous code up to the next await; the pc names the operation that  *)
(* comes next.  Consecutive writes of one coroutine to fields of the same  *)
(* hash that no reader tells apart are one step, and a broadcast, which    *)
(* touches no shared state, is part of the step before it.                 *)
(* A task that was cancelled gets CancelledError at the await it is        *)
(* suspended in when it next runs (asyncio.Task.cancel): the operation the *)
(* pc names is then not performed.                                         *)
(***************************************************************************)
EXTENDS Naturals, Integers, Sequences, FiniteSets, TLC

VARIABLES
    roomStore,          \* redis: key "room:<match_id>" -> hash (field -> value)
    roomTTL,            \* match ids whose key carries a TTL (redis EXPIRE)
    aged,               \* match ids whose created_at is more than 10 minutes ago
    active_rooms,       \* redis set ACTIVE_ROOMS_SET
    active_connections, \* match_id -> (player_uid -> websocket handle)
    active_timers,      \* match_id -> timer task
    player_answers,     \* <<match_id, uid>> -> list of transcript segments
    audio_buffers,      \* <<match_id, uid>> -> buffered audio (half seconds)
    timers,             \* the timer tasks: task id -> coroutine state
    proc,               \* HTTP request handlers and room WebSocket handlers
    cleaner,            \* the cleanup_expired_rooms coroutine
    graded,             \* history: <<match_id, uid>> -> number of grader calls
    roomPlayers,        \* history: match_id -> the two uids it was created for
    queue,              \* redis list MATCH_QUEUE
    mm,                 \* the try_match_players coroutine of the polling loop
    joins,              \* /ws/join handlers
    channel,            \* messages published on MATCH_CHANNEL, in order
    redisTime,          \* redis TIME, whole seconds
    enqLog,             \* history: the uids in the order they were enqueued
    mmHist,             \* history: a dequeue removed an entry; failed creations; who left
    outbox,             \* history: socket -> the messages written to it that
                        \* the properties are about (match_graded,
                        \* transcription, the messages a room message is
                        \* answered with, and the messages of the broadcast
                        \* specification)
    bcast,              \* a call of broadcast_to_room on its own
    frames,             \* history: socket -> the number of text frames its
                        \* receive loop has taken
    heard,              \* history: <<match_id, uid>> -> the non-empty texts
                        \* the transcriber recognized for the player, in order
    handed              \* history: <<match_id, uid>> -> the answers given to
                        \* the grader, in order

roomVars == <<roomStore, roomTTL, aged, active_rooms, active_connections,
              active_timers, player_answers, audio_buffers, timers, proc,
              cleaner, graded, roomPlayers>>
mmVars == <<queue, mm, joins, channel, redisTime, enqLog, mmHist>>
bcVars == <<outbox, bcast, frames>>
auVars == <<heard, handed>>
vars == <<roomStore, roomTTL, aged, active_rooms, active_connections,
          active_timers, player_answers, audio_buffers, timers, proc,
          cleaner, graded, roomPlayers, queue, mm, joins, channel,
          redisTime, enqLog, mmHist, outbox, bcast, frames, heard, handed>>

----------------------------------------------------------------------------
(* Bounds of the model *)

\* timer tasks that can be created in one behaviour: of the readiness
\* specification, and of the room specification
MaxTimers == 2
RoomTimers == 1
\* transcript segments kept per player
MaxSegments == 1
\* enqueue_player calls in one behaviour
MaxEnqueues == 4
\* room creations that fail in one behaviour
MaxFailures == 1
\* calls of broadcast_to_room in one behaviour of the broadcast specification
MaxBroadcasts == 1
\* transcript segments of a player in the audio specification
MaxSpeech == 2
\* text frames one socket takes in the frame specification
MaxFrames == 2
\* the longest match duration of the countdown specification, in seconds
MaxDuration == 420

(* Program constants *)

MATCH_DURATION_SECONDS == 20
CHUNK_DURATION == 4

UIDs == {"u1", "u2", "u3", "u4"}
\* a caller is a signed-in user, or a request whose cookie is missing or
\* whose token does not resolve to a session
NoToken == "no-token"
BadToken == "bad-token"
Callers == {"u1", "u2", "u3", NoToken, BadToken}

Questions == {"q1", "q2"}

\* f"match_{p1_uid}_{p2_uid}_{int(redis_time[0])}"
MatchId(p1, p2, t) == <<"match", p1, p2, t>>
\* the room of the room specification, and an id no room was created for
M1 == MatchId("u1", "u2", 1)
M2 == MatchId("u3", "u4", 1)
M0 == MatchId("u2", "u1", 1)
NoMatch == <<>>

WAITING == "waiting"
ACTIVE == "active"
COMPLETED == "completed"
ABANDONED == "abandoned"

\* Python's None where a uid or a message is expected
None == "-"

----------------------------------------------------------------------------
(* The shared store *)

EmptyHash == <<>>

\* HGETALL: the hash under the key, empty when the key does not exist
Hash(store, m) == IF m \in DOMAIN store THEN store[m] ELSE EmptyHash

\* a write that replaces the whole hash by the one field
HSetReplace(store, m, f, v) == (m :> (f :> v)) @@ store

\* HSET key field value: creates the key when it does not exist
HSet(store, m, f, v) == (m :> ((f :> v) @@ Hash(store, m))) @@ store

\* HSET key mapping
HSetMap(store, m, map) == (m :> (map @@ Hash(store, m))) @@ store

\* a key removed (TTL expiry)
DelKey(store, m) == [k \in DOMAIN store \ {m} |-> store[k]]

\* a dict without a key (del d[k])
Without(d, k) == [x \in DOMAIN d \ {k} |-> d[x]]

\* str(v) of a bool, and the decoding get_match_room applies:
\* room_data[f].lower() == 'true'
PyStrBool(b) == IF b THEN "True" ELSE "False"
DecodeBool(s) == s \in {"true", "True", "TRUE"}

\* str(n) of an int and int(s)
PyStr(n) == <<"str", n>>
PyInt(s) == s[2]

\* asdict(room) without the None values, bools as strings
CreateRoomHash(m, p1, p2) ==
    [match_id |-> m, player1_uid |-> p1, player2_uid |-> p2,
     created_at |-> "ts", status |-> WAITING,
     player1_ready |-> PyStrBool(FALSE), player2_ready |-> PyStrBool(FALSE)]

\* get_match_room: None (here a hash with no field) when HGETALL is empty, else the
\* hash with the ready flags decoded to bools and time_remaining to int
get_match_room(store, m) ==
    LET h == Hash(store, m) IN
    [f \in DOMAIN h |->
        IF f \in {"player1_ready", "player2_ready"} THEN DecodeBool(h[f])
        ELSE IF f = "time_remaining" THEN PyInt(h[f])
        ELSE h[f]]

\* room_data.get(f)
Get(room, f, default) == IF f \in DOMAIN room THEN room[f] ELSE default

\* verify_player_access: False when the room is missing, else whether the
\* uid is one of room_data['player1_uid'], room_data['player2_uid'];
\* a hash without those fields raises KeyError.  The result is "True",
\* "False" or "KeyError".
verify_player_access(store, m, uid) ==
    LET room == get_match_room(store, m) IN
    IF DOMAIN room = {} THEN "False"
    ELSE IF ~({"player1_uid", "player2_uid"} \subseteq DOMAIN room)
         THEN "KeyError"
    ELSE IF uid \in {room["player1_uid"], room["player2_uid"]} THEN "True"
    ELSE "False"

----------------------------------------------------------------------------
(* broadcast_to_room.  A socket is named by the handler slot that owns it. *)
(*   bcast.pc: idle, send (in the loop over the recipients, suspended in   *)
(*       ws.send), done (the call has returned), raised (an exception left *)
(*       the call)                                                         *)
(*   bcast.todo: the entries of list(active_connections[match_id].items()) *)
(*       the loop has not come to yet                                      *)
(*   bcast.at, bcast.exclude, bcast.failed: history of the call: the       *)
(*       registry when it was made, its exclude_player, the sockets whose  *)
(*       send raised                                                       *)

BcastIdle ==
    [pc |-> "idle", m |-> NoMatch, msg |-> 0, todo |-> <<>>, at |-> <<>>,
     exclude |-> None, failed |-> {}]

\* a loop that does not skip the excluded player
EveryPlayer(conns, m, exclude) ==
    IF m \notin DOMAIN conns THEN {} ELSE DOMAIN conns[m]

\* the players the loop sends to: every key of active_connections[match_id]
\* but the excluded one; none when the room has no entry or an empty one
Recipients(conns, m, exclude) ==
    IF m \notin DOMAIN conns THEN {}
    ELSE {u \in DOMAIN conns[m] : ~(exclude # None /\ u = exclude)}

\* list(active_connections[match_id].items()) without the excluded player:
\* the sockets are those registered when the loop starts
Snapshot(conns, m, exclude) ==
    [u \in Recipients(conns, m, exclude) |-> conns[m][u]]

\* await ws.send(message_json) returns
Write(box, ws, msg) == [box EXCEPT ![ws] = Append(@, msg)]

\* every send of a snapshot returns
WriteAll(box, snap, msg) ==
    [p \in DOMAIN box |->
        IF \E u \in DOMAIN snap : snap[u] = p THEN Append(box[p], msg)
        ELSE box[p]]

\* the loop goes on with the entries left, or the call returns
AfterSend(rec, u) ==
    LET rest == Without(rec.todo, u) IN
    [rec EXCEPT !.todo = rest,
                !.pc = IF DOMAIN rest = {} THEN "done" ELSE "send"]

\* a send whose exception leaves broadcast_to_room
AbortBroadcast(rec, u) ==
    [rec EXCEPT !.pc = "raised", !.todo = <<>>,
                !.failed = @ \cup {rec.todo[u]}]

\* "except Exception" around the send: the error is printed and the loop
\* goes on
AfterSendFailure(rec, u) ==
    AfterSend([rec EXCEPT !.failed = @ \cup {rec.todo[u]}], u)

\* broadcast_to_room(match_id, message, exclude_player) is called: it returns
\* at once without recipients, else it enters the loop
BcastCall(m, exclude) ==
    LET snap == Snapshot(active_connections, m, exclude)
        rec == [BcastIdle EXCEPT !.m = m, !.msg = bcast.msg + 1, !.todo = snap,
                                 !.at = active_connections, !.exclude = exclude]
    IN
    /\ bcast.pc \in {"idle", "done"}
    /\ bcast.msg < MaxBroadcasts
    /\ bcast' = [rec EXCEPT !.pc = IF DOMAIN snap = {} THEN "done" ELSE "send"]
    /\ UNCHANGED <<roomVars, mmVars, auVars, outbox, frames>>

\* one send of the loop returns
BcastSend ==
    /\ bcast.pc = "send"
    /\ \E u \in DOMAIN bcast.todo :
        /\ outbox' = Write(outbox, bcast.todo[u],
                           [type |-> "message", body |-> bcast.msg])
        /\ bcast' = AfterSend(bcast, u)
    /\ UNCHANGED <<roomVars, mmVars, auVars, frames>>

\* one send of the loop raises (the socket is closed)
BcastSendFail ==
    /\ bcast.pc = "send"
    /\ \E u \in DOMAIN bcast.todo : bcast' = AfterSendFailure(bcast, u)
    /\ UNCHANGED <<roomVars, mmVars, auVars, outbox, frames>>

----------------------------------------------------------------------------
(* The timer task: start_match_timer_with_grading, save_match_answers,     *)
(* update_room_status(COMPLETED) and cancel_match_timer as the task runs   *)
(* them.                                                                   *)
(*   pc: none     the task id is unused                                    *)
(*       created  asyncio.create_task was called, the task has not run     *)
(*       tick     in the countdown loop, next: hset time_remaining         *)
(*       g_read   in save_match_answers, next: get_match_room             *)
(*       g_wait   suspended in answer_to_db_middleware for player gi       *)
(*       g_bcast  next: the sends of the match_graded broadcast            *)
(*       u_status in update_room_status, next: hset status, completed_at   *)
(*       u_srem   next: srem ACTIVE_ROOMS_SET, then cancel_match_timer     *)
(*       u_await  in cancel_match_timer, suspended in "await task"         *)
(*       done     the task has ended with result ok / cancelled / error    *)
(*   res: grading_results of save_match_answers, per player: no_answer,    *)
(*       success, error, None while the player has no entry                *)
(*   bc: the recipients of the match_graded broadcast in progress          *)
(*   region: the block of the function the task is in: the try block, the  *)
(*       "except CancelledError" handler or the "except Exception" handler *)

TimerIds == DOMAIN timers

TimerNone ==
    [m |-> NoMatch, pc |-> "none", tr |-> 0, gc |-> FALSE, region |-> "try",
     mustCancel |-> FALSE, players |-> <<>>, gi |-> 0, waitFor |-> 0,
     res |-> <<None, None>>, bc |-> <<>>, result |-> "-"]

\* time_remaining = MATCH_DURATION_SECONDS; grading_completed = False
NewTimer(m) ==
    [TimerNone EXCEPT !.m = m, !.pc = "created", !.tr = MATCH_DURATION_SECONDS]

TimerDone(t) == timers[t].pc = "done"
TimerRunning(t) == timers[t].pc \notin {"none", "done"}
\* the task has run and is inside the function
TimerStarted(t) == timers[t].pc \notin {"none", "created", "done"}

\* (a wait of ten seconds whatever remains)
WaitTen(tr) == 10

\* the wait of one loop iteration
WaitTime(tr) ==
    LET w == IF tr <= 10 THEN 1 ELSE IF tr <= 30 THEN 5 ELSE 10
    IN IF w < tr THEN w ELSE tr

\* room has a registered connection: broadcast_to_room suspends in its sends
HasConns(m) ==
    m \in DOMAIN active_connections /\ DOMAIN active_connections[m] # {}

\* task.cancel(): nothing for a task that is done; a task suspended in
\* "await other_task" passes the cancellation on to that task; any other
\* task gets CancelledError at its await
RECURSIVE CancelTask(_, _)
CancelTask(ts, t) ==
    IF ts[t].pc = "done" THEN ts
    ELSE IF ts[t].pc = "u_await" /\ ts[t].waitFor # t
            /\ ts[ts[t].waitFor].pc # "done"
         THEN CancelTask(ts, ts[t].waitFor)
    ELSE [ts EXCEPT ![t].mustCancel = TRUE]

\* a task that has ended: its frame is gone, its result stays
EndTask(m, result) == [TimerNone EXCEPT !.m = m, !.pc = "done", !.result = result]

\* the finally block, and the end of the task
Finally(t, ts, result) ==
    /\ active_timers' = IF ts[t].m \in DOMAIN active_timers
                        THEN Without(active_timers, ts[t].m)
                        ELSE active_timers
    /\ timers' = [ts EXCEPT ![t] = EndTask(ts[t].m, result)]

\* a handler that goes to update_room_status without grading
SkipGrading(rec, region) ==
    [rec EXCEPT !.region = region, !.mustCancel = FALSE, !.bc = <<>>,
                !.pc = "u_status"]

\* entering "except CancelledError" / "except Exception": grading first when
\* grading_completed is False, then update_room_status
EnterHandler(rec, region) ==
    [rec EXCEPT !.region = region, !.mustCancel = FALSE, !.bc = <<>>,
                !.pc = IF rec.gc THEN "u_status" ELSE "g_read"]

\* the first player from index i on with a non-empty transcript, 0 if none
NextGradee(m, players, i) ==
    LET has(j) == /\ <<m, players[j]>> \in DOMAIN player_answers
                  /\ player_answers[<<m, players[j]>>] # <<>>
    IN IF i <= 2 /\ has(i) THEN i
       ELSE IF i + 1 <= 2 /\ has(i + 1) THEN i + 1
       ELSE 0

\* the players from index i up to (not including) index g, or up to the
\* last one when g is 0, have no transcript: their entry is no_answer
NoAnswers(res, i, g) ==
    [j \in 1..2 |-> IF j >= i /\ (g = 0 \/ j < g) THEN "no_answer" ELSE res[j]]

\* complete_answer: the segments joined by blanks, then split at white space
\* and joined again.  A text of the model is one word, so the answer is the
\* sequence of the words: an empty segment adds nothing to it.
CompleteAnswer(segments) == SelectSeq(segments, LAMBDA x : x # "")

\* a history of events per player: event x is added to the events of key
Log(h, key, x) ==
    (key :> Append(IF key \in DOMAIN h THEN h[key] ELSE <<>>, x)) @@ h

\* save_match_answers from the player loop on, starting at player i, for the
\* task record rec: the grader is called for the next player with an answer;
\* with none left the results are broadcast, the transcripts deleted and
\* the caller sets grading_completed and calls update_room_status
GradeFrom(t, rec, i) ==
    LET g == NextGradee(rec.m, rec.players, i)
        k1 == <<rec.m, rec.players[1]>>
        k2 == <<rec.m, rec.players[2]>>
        rec2 == [rec EXCEPT !.res = NoAnswers(rec.res, i, g)]
    IN
    IF g # 0 THEN
        /\ timers' = [timers EXCEPT ![t] = [rec2 EXCEPT !.pc = "g_wait", !.gi = g]]
        /\ graded' = [graded EXCEPT ![<<rec.m, rec.players[g]>>] = @ + 1]
        /\ handed' = Log(handed,  <<rec.m, rec.players[g]>>,
                    CompleteAnswer(player_answers[<<rec.m, rec.players[g]>>]))
        /\ UNCHANGED player_answers
    ELSE IF HasConns(rec.m) THEN
        /\ timers' = [timers EXCEPT ![t] =
                [rec2 EXCEPT !.pc = "g_bcast",
                             !.bc = Snapshot(active_connections, rec.m, None)]]
        /\ UNCHANGED <<graded, player_answers, handed>>
    ELSE
        /\ timers' = [timers EXCEPT ![t] = [rec2 EXCEPT !.pc = "u_status", !.gc = TRUE]]
        /\ player_answers' = Without(Without(player_answers, k1), k2)
        /\ UNCHANGED <<graded, handed>>

\* the task runs for the first time: a task cancelled before that never
\* enters the function body (no handler, no finally block)
TimerRun(t) ==
    /\ timers[t].pc = "created"
    /\ timers' = IF timers[t].mustCancel
                 THEN [timers EXCEPT ![t] = EndTask(timers[t].m, "cancelled")]
                 ELSE [timers EXCEPT ![t].pc = "tick"]
    /\ UNCHANGED <<roomStore, roomTTL, aged, active_rooms, active_connections,
                   active_timers, player_answers, audio_buffers, proc, cleaner,
                   graded, roomPlayers, mmVars, bcVars, auVars>>

\* the time_update of a loop iteration, and the time_warning at 60, 30 and
\* 10 seconds
TimeUpdate(tr) == [type |-> "time_update", body |-> tr]
TimeWarning(tr) == [type |-> "time_warning", body |-> tr]
Warns(tr) == tr \in {60, 30, 10}

\* the broadcasts of one loop iteration to the sockets registered at the
\* time (the sends of a call are one step and none fails)
TickBroadcasts(box, m, tr) ==
    LET snap == Snapshot(active_connections, m, None)
        updated == WriteAll(box, snap, TimeUpdate(tr))
    IN IF Warns(tr) THEN WriteAll(updated, snap, TimeWarning(tr)) ELSE updated

\* one iteration of the countdown loop: time_remaining is written, the
\* time messages are broadcast (the outbox records them when log is TRUE),
\* the task sleeps and decreases time_remaining; after the last iteration
\* the expiry path starts grading
Tick(t, log) ==
    LET rec == timers[t]
        tr2 == rec.tr - WaitTime(rec.tr)
    IN
    /\ rec.pc = "tick" /\ ~rec.mustCancel
    /\ roomStore' = HSet(roomStore, rec.m, "time_remaining", PyStr(rec.tr))
    /\ outbox' = IF log THEN TickBroadcasts(outbox, rec.m, rec.tr) ELSE outbox
    /\ timers' = [timers EXCEPT ![t].tr = tr2,
                     ![t].pc = IF tr2 > 0 THEN "tick"
                               ELSE IF rec.gc THEN "u_status" ELSE "g_read"]
    /\ UNCHANGED <<roomTTL, aged, active_rooms, active_connections,
                   active_timers, player_answers, audio_buffers, proc, cleaner,
                   graded, roomPlayers, mmVars, bcast, frames, auVars>>

TimerTick(t) == Tick(t, FALSE)

\* the store command of a loop iteration raises (an unexpected failure)
TimerFault(t) ==
    /\ timers[t].pc = "tick" /\ ~timers[t].mustCancel
    /\ timers' = [timers EXCEPT ![t] = EnterHandler(@, "error")]
    /\ UNCHANGED <<roomStore, roomTTL, aged, active_rooms, active_connections,
                   active_timers, player_answers, audio_buffers, proc, cleaner,
                   graded, roomPlayers, mmVars, bcVars, auVars>>

\* CancelledError is raised at the await the task is suspended in: in the
\* try block the "except CancelledError" handler runs; in a handler the
\* error leaves the function through the finally block
TimerCancelled(t) ==
    LET rec == timers[t] IN
    /\ rec.mustCancel
    /\ rec.pc \in {"tick", "g_read", "g_wait", "g_bcast", "u_status", "u_srem"}
    /\ IF rec.region = "try"
       THEN /\ timers' = [timers EXCEPT ![t] = EnterHandler(rec, "cancel")]
            /\ UNCHANGED active_timers
       ELSE Finally(t, timers, "cancelled")
    /\ UNCHANGED <<roomStore, roomTTL, aged, active_rooms, active_connections,
                   player_answers, audio_buffers, proc, cleaner, graded,
                   roomPlayers, mmVars, bcVars, auVars>>

\* save_match_answers: the room is read; without a room or a question_id
\* nothing is graded; a hash without the player fields raises KeyError
TimerGradeRead(t) ==
    LET rec == timers[t]
        room == get_match_room(roomStore, rec.m)
    IN
    /\ rec.pc = "g_read" /\ ~rec.mustCancel
    /\ IF DOMAIN room = {} \/ "question_id" \notin DOMAIN room THEN
            /\ timers' = [timers EXCEPT ![t].pc = "u_status", ![t].gc = TRUE]
            /\ UNCHANGED <<graded, player_answers, active_timers, handed>>
       ELSE IF ~({"player1_uid", "player2_uid"} \subseteq DOMAIN room) THEN
            CASE rec.region = "try" ->
                    /\ timers' = [timers EXCEPT ![t] = EnterHandler(rec, "error")]
                    /\ UNCHANGED <<graded, player_answers, active_timers, handed>>
              [] rec.region = "error" ->
                    /\ timers' = [timers EXCEPT ![t].pc = "u_status"]
                    /\ UNCHANGED <<graded, player_answers, active_timers, handed>>
              [] rec.region = "cancel" ->
                    /\ Finally(t, timers, "error")
                    /\ UNCHANGED <<graded, player_answers, handed>>
       ELSE /\ GradeFrom(t, [rec EXCEPT !.players =
                                <<room["player1_uid"], room["player2_uid"]>>,
                                !.res = <<None, None>>], 1)
            /\ UNCHANGED active_timers
    /\ UNCHANGED <<roomStore, roomTTL, aged, active_rooms, active_connections,
                   audio_buffers, proc, cleaner, roomPlayers, mmVars, bcVars,
                   heard>>

\* answer_to_db_middleware returns: the player's entry is the result, and
\* the loop goes on with the next player
TimerGraded(t) ==
    LET rec == timers[t] IN
    /\ rec.pc = "g_wait" /\ ~rec.mustCancel
    /\ GradeFrom(t, [rec EXCEPT !.res[rec.gi] = "success"], rec.gi + 1)
    /\ UNCHANGED <<roomStore, roomTTL, aged, active_rooms, active_connections,
                   active_timers, audio_buffers, proc, cleaner, roomPlayers,
                   mmVars, bcVars, heard>>

\* a grader failure that leaves no entry for the player
NoErrorEntry(rec) == rec

\* what "except Exception" around the grader call leaves: the player's
\* entry is an error entry
GradingError(rec) == [rec EXCEPT !.res[rec.gi] = "error"]

\* answer_to_db_middleware raises: the exception is caught for this player,
\* and the loop goes on with the next player
TimerGradeFail(t) ==
    LET rec == timers[t] IN
    /\ rec.pc = "g_wait" /\ ~rec.mustCancel
    /\ GradeFrom(t, GradingError(rec), rec.gi + 1)
    /\ UNCHANGED <<roomStore, roomTTL, aged, active_rooms, active_connections,
                   active_timers, audio_buffers, proc, cleaner, roomPlayers,
                   mmVars, bcVars, heard>>

\* match_graded is sent, then the transcripts of both players are deleted
TimerGradeBroadcast(t) ==
    LET rec == timers[t] IN
    /\ rec.pc = "g_bcast" /\ ~rec.mustCancel
    /\ outbox' = WriteAll(outbox, rec.bc,
                          [type |-> "match_graded", body |-> rec.res])
    /\ timers' = [timers EXCEPT ![t].pc = "u_status", ![t].gc = TRUE,
                                ![t].bc = <<>>]
    /\ player_answers' = Without(Without(player_answers,
                            <<rec.m, rec.players[1]>>), <<rec.m, rec.players[2]>>)
    /\ UNCHANGED <<roomStore, roomTTL, aged, active_rooms, active_connections,
                   active_timers, audio_buffers, proc, cleaner, graded,
                   roomPlayers, mmVars, bcast, frames, auVars>>

\* update_room_status(COMPLETED): hset status, hset completed_at
TimerStatus(t) ==
    LET rec == timers[t] IN
    /\ rec.pc = "u_status" /\ ~rec.mustCancel
    /\ roomStore' = HSetMap(roomStore, rec.m,
                        [status |-> COMPLETED, completed_at |-> "ts"])
    /\ timers' = [timers EXCEPT ![t].pc = "u_srem"]
    /\ UNCHANGED <<roomTTL, aged, active_rooms, active_connections,
                   active_timers, player_answers, audio_buffers, proc, cleaner,
                   graded, roomPlayers, mmVars, bcVars, auVars>>

\* what follows update_room_status: the try block ends, the handlers
\* re-raise; all leave through the finally block
AfterUpdate(t, ts) ==
    Finally(t, ts, CASE ts[t].region = "try" -> "ok"
                     [] ts[t].region = "cancel" -> "cancelled"
                     [] ts[t].region = "error" -> "error")

\* srem, then cancel_match_timer: the task registered for the room (this
\* task itself, unless another was registered over it) is cancelled and
\* awaited
TimerSrem(t) ==
    LET rec == timers[t] IN
    /\ rec.pc = "u_srem" /\ ~rec.mustCancel
    /\ active_rooms' = active_rooms \ {rec.m}
    /\ IF rec.m \in DOMAIN active_timers
       THEN /\ timers' = [CancelTask(timers, active_timers[rec.m]) EXCEPT
                            ![t].pc = "u_await",
                            ![t].waitFor = active_timers[rec.m]]
            /\ UNCHANGED active_timers
       ELSE AfterUpdate(t, timers)
    /\ UNCHANGED <<roomStore, roomTTL, aged, active_connections,
                   player_answers, audio_buffers, proc, cleaner, graded,
                   roomPlayers, mmVars, bcVars, auVars>>

\* "await task" in cancel_match_timer ends: awaiting itself the task gets
\* its own CancelledError there, awaiting a cancelled task too; "except
\* CancelledError: pass" swallows it.  The exception of a task that failed
\* is raised in the awaiting task.
TimerAwaited(t) ==
    LET rec == timers[t]
        ts == [timers EXCEPT ![t].mustCancel = FALSE]
    IN
    /\ rec.pc = "u_await"
    /\ rec.waitFor = t \/ timers[rec.waitFor].pc = "done"
    /\ IF rec.waitFor # t /\ timers[rec.waitFor].result = "error"
       THEN IF rec.region = "try"
            THEN /\ timers' = [ts EXCEPT ![t] = EnterHandler(@, "error")]
                 /\ UNCHANGED active_timers
            ELSE Finally(t, ts, "error")
       ELSE AfterUpdate(t, ts)
    /\ UNCHANGED <<roomStore, roomTTL, aged, active_rooms, active_connections,
                   player_answers, audio_buffers, proc, cleaner, graded,
                   roomPlayers, mmVars, bcVars, auVars>>

\* the steps of a timer task when no store command fails
TimerStep(t) ==
    \/ TimerRun(t)
    \/ TimerTick(t)
    \/ TimerCancelled(t)
    \/ TimerGradeRead(t)
    \/ TimerGraded(t)
    \/ TimerGradeBroadcast(t)
    \/ TimerStatus(t)
    \/ TimerSrem(t)
    \/ TimerAwaited(t)

----------------------------------------------------------------------------
(* Request handlers.  A handler is an HTTP request (kind ready, force,     *)
(* info, transcript) or a room WebSocket (kind ws).                        *)
(*   pc: idle     no request                                               *)
(*       i_verify get_room_info, next: verify_player_access                *)
(*       r_read   set_player_ready, next: get_match_room                   *)
(*       r_flag   next: hset player<role>_ready                            *)
(*       r_question next: get_random_question_from_firestore and the       *)
(*                hset of question_id, question_text                       *)
(*       r_status next: update_room_status(ACTIVE), then create_task       *)
(*       f_read   force_complete_match, next: get_match_room               *)
(*       f_cancel suspended in the sends of the match_ending broadcast     *)
(*       f_await  in cancel_match_timer, suspended in "await task"         *)
(*       ws_loop  suspended in websocket.receive()                         *)
(*       done     the response was sent / the socket is closed (resp)      *)
(*   ret: who called set_player_ready: http (mark_player_ready), ws_setup  *)
(*       (the auto-ready of room_websocket), ws_msg (a "ready" message),   *)
(*       call (the function is called on its own; both is its both_ready)  *)

HttpIds == {"h1", "h2", "h3"}
WsIds == {"w1", "w2", "w3"}
ProcIds == HttpIds \cup WsIds
RoomIds == {M1, M0}

ProcIdle ==
    [kind |-> "idle", pc |-> "idle", uid |-> "-", m |-> NoMatch, ret |-> "-",
     role |-> 0, both |-> FALSE, target |-> 0, resp |-> 0,
     sawRunning |-> FALSE]

\* the handler ends: its locals are gone, the response (or close code) stays
\* until the slot serves its next request
Respond(rec, code) ==
    [ProcIdle EXCEPT !.kind = rec.kind, !.pc = "done", !.resp = code,
                     !.sawRunning = rec.sawRunning]

\* the checks every entry point starts with: the session cookie, get_session,
\* verify_player_access.  0: the caller may go on; else the status code of
\* the rejection (500: verify_player_access raised)
AuthCodeNoVerify(store, m, caller) ==
    IF caller \in {NoToken, BadToken} THEN 401 ELSE 0
AuthCode(store, m, caller) ==
    IF caller = NoToken THEN 401
    ELSE IF caller = BadToken THEN 401
    ELSE CASE verify_player_access(store, m, caller) = "True" -> 0
           [] verify_player_access(store, m, caller) = "False" -> 403
           [] OTHER -> 500

\* room_websocket closes with 1008 where the HTTP endpoints answer 401 / 403;
\* an exception ends the handler (1011)
WsCloseCode(code) == IF code \in {401, 403} THEN 1008 ELSE 1011

\* set_player_ready returns to its caller: mark_player_ready broadcasts
\* player_ready and answers; room_websocket broadcasts player_joined, reads
\* the room for the "connected" message, sends it and enters the receive
\* loop; handle_room_message broadcasts player_ready
ReturnFromReady(rec, both) ==
    CASE rec.ret = "http" -> Respond([rec EXCEPT !.both = both], 200)
      [] rec.ret = "ws_setup" -> [rec EXCEPT !.both = both, !.pc = "ws_loop"]
      [] rec.ret = "ws_msg" -> [rec EXCEPT !.both = both, !.pc = "ws_loop"]
      [] rec.ret = "call" -> [Respond(rec, 0) EXCEPT !.both = both]

\* an exception leaves set_player_ready: a 500 for the HTTP endpoint; the end
\* of room_websocket when raised before its try block; caught and printed
\* by the receive loop
RaiseFromReady(rec) ==
    CASE rec.ret = "http" -> Respond(rec, 500)
      [] rec.ret = "ws_setup" -> Respond(rec, 1011)
      [] rec.ret = "ws_msg" -> [rec EXCEPT !.pc = "ws_loop"]
      [] rec.ret = "call" -> Respond(rec, 500)

\* POST /ready, POST /force_complete, GET /transcript: the checks, then the
\* body; GET /transcript only reads player_answers
StartCall(p, kind, caller, m) ==
    LET code == AuthCode(roomStore, m, caller)
        rec == [ProcIdle EXCEPT !.kind = kind, !.uid = caller, !.m = m]
    IN
    /\ proc[p].pc \in {"idle", "done"}
    /\ proc' = [proc EXCEPT ![p] =
            IF code # 0 THEN Respond(rec, code)
            ELSE CASE kind = "ready" -> [rec EXCEPT !.pc = "r_read", !.ret = "http"]
                   [] kind = "force" ->
                        [rec EXCEPT !.pc = "f_read",
                            !.sawRunning =
                                /\ Get(Hash(roomStore, m), "status", "-") = ACTIVE
                                /\ m \in DOMAIN active_timers
                                /\ TimerStarted(active_timers[m])]
                   [] kind = "transcript" -> Respond(rec, 200)]
    /\ UNCHANGED <<roomStore, roomTTL, aged, active_rooms, active_connections,
                   active_timers, player_answers, audio_buffers, timers,
                   cleaner, graded, roomPlayers, mmVars, bcVars, auVars>>

\* GET /info: the session checks, then get_match_room (404 without a room)
StartInfo(p, caller, m) ==
    LET code == AuthCodeNoVerify(roomStore, m, caller)
        rec == [ProcIdle EXCEPT !.kind = "info", !.uid = caller, !.m = m]
    IN
    /\ proc[p].pc \in {"idle", "done"}
    /\ proc' = [proc EXCEPT ![p] =
            IF code # 0 THEN Respond(rec, code)
            ELSE IF DOMAIN get_match_room(roomStore, m) = {} THEN Respond(rec, 404)
            ELSE [rec EXCEPT !.pc = "i_verify"]]
    /\ UNCHANGED <<roomStore, roomTTL, aged, active_rooms, active_connections,
                   active_timers, player_answers, audio_buffers, timers,
                   cleaner, graded, roomPlayers, mmVars, bcVars, auVars>>

\* GET /info: verify_player_access, then the answer from the room read before
InfoVerify(p) ==
    LET rec == proc[p]
        code == AuthCode(roomStore, rec.m, rec.uid)
    IN
    /\ rec.pc = "i_verify"
    /\ proc' = [proc EXCEPT ![p] = Respond(rec, IF code = 0 THEN 200 ELSE code)]
    /\ UNCHANGED <<roomStore, roomTTL, aged, active_rooms, active_connections,
                   active_timers, player_answers, audio_buffers, timers,
                   cleaner, graded, roomPlayers, mmVars, bcVars, auVars>>

----------------------------------------------------------------------------
(* set_player_ready *)

\* set_player_ready(match_id, player_uid) is called on its own, with any uid
CallReady(p, uid, m) ==
    /\ proc[p].pc \in {"idle", "done"}
    /\ proc' = [proc EXCEPT ![p] =
            [ProcIdle EXCEPT !.kind = "ready", !.uid = uid, !.m = m,
                             !.pc = "r_read", !.ret = "call"]]
    /\ UNCHANGED <<roomStore, roomTTL, aged, active_rooms, active_connections,
                   active_timers, player_answers, audio_buffers, timers,
                   cleaner, graded, roomPlayers, mmVars, bcVars, auVars>>

\* room_data = await get_match_room(match_id), and which player the caller is
ReadyRead(p) ==
    LET rec == proc[p]
        room == get_match_room(roomStore, rec.m)
        role == IF rec.uid = room["player1_uid"] THEN 1
                ELSE IF rec.uid = room["player2_uid"] THEN 2 ELSE 0
        r1 == Get(room, "player1_ready", FALSE)
        r2 == Get(room, "player2_ready", FALSE)
    IN
    /\ rec.pc = "r_read"
    /\ proc' = [proc EXCEPT ![p] =
            IF DOMAIN room = {} THEN ReturnFromReady(rec, FALSE)
            ELSE IF ~({"player1_uid", "player2_uid"} \subseteq DOMAIN room)
                 THEN RaiseFromReady(rec)
            ELSE IF role = 0
                 THEN IF r1 /\ r2 THEN [rec EXCEPT !.pc = "r_question"]
                      ELSE ReturnFromReady(rec, FALSE)
            ELSE [rec EXCEPT !.pc = "r_flag", !.role = role,
                             !.both = IF role = 1 THEN r2 ELSE r1]]
    /\ UNCHANGED <<roomStore, roomTTL, aged, active_rooms, active_connections,
                   active_timers, player_answers, audio_buffers, timers,
                   cleaner, graded, roomPlayers, mmVars, bcVars, auVars>>

\* hset of the caller's flag; both_ready from the room read before and the
\* caller's own flag
ReadyFlag(p) ==
    LET rec == proc[p] IN
    /\ rec.pc = "r_flag"
    /\ roomStore' = HSet(roomStore, rec.m,
            IF rec.role = 1 THEN "player1_ready" ELSE "player2_ready", "true")
    /\ proc' = [proc EXCEPT ![p] =
            IF rec.both THEN [rec EXCEPT !.pc = "r_question"]
            ELSE ReturnFromReady(rec, FALSE)]
    /\ UNCHANGED <<roomTTL, aged, active_rooms, active_connections,
                   active_timers, player_answers, audio_buffers, timers,
                   cleaner, graded, roomPlayers, mmVars, bcVars, auVars>>

\* the question is selected and stored in the room
ReadyQuestion(p) ==
    LET rec == proc[p] IN
    /\ rec.pc = "r_question"
    /\ \E q \in Questions :
        /\ roomStore' = HSetMap(roomStore, rec.m,
                            [question_id |-> q, question_text |-> q])
        /\ proc' = [proc EXCEPT ![p].pc = "r_status"]
    /\ UNCHANGED <<roomTTL, aged, active_rooms, active_connections,
                   active_timers, player_answers, audio_buffers, timers,
                   cleaner, graded, roomPlayers, mmVars, bcVars, auVars>>

\* the task id create_task gives the new timer
FreeTimer == CHOOSE t \in TimerIds :
                /\ timers[t].pc = "none"
                /\ \A u \in TimerIds : timers[u].pc = "none" => t <= u

\* asyncio.create_task(start_match_timer(match_id)); active_timers[match_id] = task
StartTimer(m) ==
    /\ timers' = [timers EXCEPT ![FreeTimer] = NewTimer(m)]
    /\ active_timers' = (m :> FreeTimer) @@ active_timers

\* update_room_status(ACTIVE), then the timer task is created and registered
ReadyStatus(p) ==
    LET rec == proc[p] IN
    /\ rec.pc = "r_status"
    /\ \E t \in TimerIds : timers[t].pc = "none"
    /\ roomStore' = HSetMap(roomStore, rec.m,
                        [status |-> ACTIVE, started_at |-> "ts"])
    /\ StartTimer(rec.m)
    /\ proc' = [proc EXCEPT ![p] = ReturnFromReady(rec, TRUE)]
    /\ UNCHANGED <<roomTTL, aged, active_rooms, active_connections,
                   player_answers, audio_buffers, cleaner, graded, roomPlayers,
                   mmVars, bcVars, auVars>>

----------------------------------------------------------------------------
(* force_complete_match *)

\* cancel_match_timer as a handler calls it: the registered task is
\* cancelled and awaited; without one the handler answers
ForceCancel(p, rec) ==
    IF rec.m \in DOMAIN active_timers
    THEN /\ timers' = CancelTask(timers, active_timers[rec.m])
         /\ proc' = [proc EXCEPT ![p] =
                [rec EXCEPT !.pc = "f_await", !.target = active_timers[rec.m]]]
    ELSE /\ proc' = [proc EXCEPT ![p] = Respond(rec, 200)]
         /\ UNCHANGED timers

\* the room is read: a completed room is refused (400); else match_ending is
\* broadcast, which suspends only when the room has connections
ForceRead(p) ==
    LET rec == proc[p]
        room == get_match_room(roomStore, rec.m)
    IN
    /\ rec.pc = "f_read"
    /\ IF DOMAIN room # {} /\ "status" \notin DOMAIN room
       THEN /\ proc' = [proc EXCEPT ![p] = Respond(rec, 500)]
            /\ UNCHANGED timers
       ELSE IF DOMAIN room # {} /\ room["status"] = COMPLETED
       THEN /\ proc' = [proc EXCEPT ![p] = Respond(rec, 400)]
            /\ UNCHANGED timers
       ELSE IF HasConns(rec.m)
       THEN /\ proc' = [proc EXCEPT ![p].pc = "f_cancel"]
            /\ UNCHANGED timers
       ELSE ForceCancel(p, rec)
    /\ UNCHANGED <<roomStore, roomTTL, aged, active_rooms, active_connections,
                   active_timers, player_answers, audio_buffers, cleaner,
                   graded, roomPlayers, mmVars, bcVars, auVars>>

ForceCancelStep(p) ==
    /\ proc[p].pc = "f_cancel"
    /\ ForceCancel(p, proc[p])
    /\ UNCHANGED <<roomStore, roomTTL, aged, active_rooms, active_connections,
                   active_timers, player_answers, audio_buffers, cleaner,
                   graded, roomPlayers, mmVars, bcVars, auVars>>

\* the awaited task has ended: CancelledError is passed over, the exception
\* of a failed task leaves the handler
ForceAwaited(p) ==
    LET rec == proc[p] IN
    /\ rec.pc = "f_await"
    /\ TimerDone(rec.target)
    /\ proc' = [proc EXCEPT ![p] =
            Respond(rec, IF timers[rec.target].result = "error" THEN 500 ELSE 200)]
    /\ UNCHANGED <<roomStore, roomTTL, aged, active_rooms, active_connections,
                   active_timers, player_answers, audio_buffers, timers,
                   cleaner, graded, roomPlayers, mmVars, bcVars, auVars>>

----------------------------------------------------------------------------
(* room_websocket *)

\* active_connections[match_id][player_uid] = websocket
Register(conns, m, uid, ws) ==
    (m :> ((uid :> ws) @@ (IF m \in DOMAIN conns THEN conns[m] ELSE <<>>)))
        @@ conns

\* del active_connections[match_id][player_uid], and the room's entry when
\* it is left empty
Unregister(conns, m, uid) ==
    IF m \in DOMAIN conns /\ uid \in DOMAIN conns[m]
    THEN IF DOMAIN conns[m] = {uid} THEN Without(conns, m)
         ELSE (m :> Without(conns[m], uid)) @@ conns
    ELSE conns

\* accept, the checks (a rejection closes with 1008), the registration, and
\* the call of set_player_ready
WsConnect(p, caller, m) ==
    LET code == AuthCode(roomStore, m, caller)
        rec == [ProcIdle EXCEPT !.kind = "ws", !.uid = caller, !.m = m]
    IN
    /\ proc[p].pc \in {"idle", "done"}
    /\ IF code # 0
       THEN /\ proc' = [proc EXCEPT ![p] = Respond(rec, WsCloseCode(code))]
            /\ UNCHANGED active_connections
       ELSE /\ proc' = [proc EXCEPT ![p] =
                            [rec EXCEPT !.pc = "r_read", !.ret = "ws_setup"]]
            /\ active_connections' = Register(active_connections, m, caller, p)
    /\ UNCHANGED <<roomStore, roomTTL, aged, active_rooms, active_timers,
                   player_answers, audio_buffers, timers, cleaner, graded,
                   roomPlayers, mmVars, bcVars, auVars>>

\* a {"type": "ready"} message: handle_room_message calls set_player_ready
WsReady(p) ==
    /\ proc[p].pc = "ws_loop"
    /\ proc' = [proc EXCEPT ![p].pc = "r_read", ![p].ret = "ws_msg"]
    /\ UNCHANGED <<roomStore, roomTTL, aged, active_rooms, active_connections,
                   active_timers, player_answers, audio_buffers, timers,
                   cleaner, graded, roomPlayers, mmVars, bcVars, auVars>>

\* audio is counted in half seconds (16000 bytes of 16-bit samples at
\* AUDIO_RATE)
\* what the transcriber recognizes in a buffer, stripped
Recognized == {"", "w"}

\* (a buffer transcribed only when it holds more than CHUNK_DURATION)
FlushesLate(total) == total > 2 * CHUNK_DURATION
\* duration >= CHUNK_DURATION, in half seconds
Flushes(total) == total >= 2 * CHUNK_DURATION

\* accumulate_transcription: the text is appended to the player's segments
Accumulate(answers, text) == Append(answers, text)

\* process_audio_chunk_with_accumulation for a chunk of n half seconds: the
\* chunk is appended; from CHUNK_DURATION seconds on the buffer is
\* transcribed (text is what the transcriber recognizes, stripped), a
\* non-empty text is appended to the player's answers and broadcast to the
\* room, and the buffer keeps the last half second.  In one behaviour the
\* transcriber recognizes at most max non-empty texts of a player.
AudioFrame(p, n, text, max) ==
    LET rec == proc[p]
        key == <<rec.m, rec.uid>>
        total == (IF key \in DOMAIN audio_buffers THEN audio_buffers[key] ELSE 0) + n
        answers == IF key \in DOMAIN player_answers THEN player_answers[key] ELSE <<>>
        spoken == IF key \in DOMAIN heard THEN Len(heard[key]) ELSE 0
    IN
    /\ rec.pc = "ws_loop"
    /\ IF Flushes(total)
       THEN /\ text # "" => spoken < max
            /\ IF text # ""
               THEN /\ player_answers' =
                        (key :> Accumulate(answers, text)) @@ player_answers
                    /\ heard' = Log(heard, key, text)
                    /\ outbox' = WriteAll(outbox,
                            Snapshot(active_connections, rec.m, None),
                            [type |-> "transcription", body |-> <<rec.uid, text>>])
               ELSE UNCHANGED <<player_answers, heard, outbox>>
            /\ audio_buffers' = (key :> 1) @@ audio_buffers
       ELSE /\ audio_buffers' = (key :> total) @@ audio_buffers
            /\ UNCHANGED <<player_answers, heard, outbox>>
    /\ UNCHANGED <<roomStore, roomTTL, aged, active_rooms, active_connections,
                   active_timers, timers, proc, cleaner, graded, roomPlayers,
                   mmVars, bcast, frames, handed>>

\* a binary frame of n half seconds arrives on socket p
WsAudio(p, n) == \E text \in Recognized : AudioFrame(p, n, text, MaxSegments)

\* the transcription raises: the exception is printed and the buffer emptied
WsAudioFail(p, n) ==
    LET rec == proc[p]
        key == <<rec.m, rec.uid>>
        total == (IF key \in DOMAIN audio_buffers THEN audio_buffers[key] ELSE 0) + n
    IN
    /\ rec.pc = "ws_loop"
    /\ total >= 2 * CHUNK_DURATION
    /\ audio_buffers' = (key :> 0) @@ audio_buffers
    /\ UNCHANGED <<roomStore, roomTTL, aged, active_rooms, active_connections,
                   active_timers, player_answers, timers, proc, cleaner,
                   graded, roomPlayers, mmVars, bcVars, auVars>>

\* the client disconnects: CancelledError at the await of the handler.  In
\* the receive loop the finally block unregisters the player and deletes the
\* audio buffer; before the try block nothing is cleaned up.
WsDisconnect(p) ==
    LET rec == proc[p]
        inTry == rec.pc = "ws_loop" \/ rec.ret = "ws_msg"
    IN
    /\ rec.kind = "ws" /\ rec.pc \notin {"idle", "done"}
    /\ proc' = [proc EXCEPT ![p] = Respond(rec, 1000)]
    /\ active_connections' = IF inTry
            THEN Unregister(active_connections, rec.m, rec.uid)
            ELSE active_connections
    /\ audio_buffers' = IF inTry THEN Without(audio_buffers, <<rec.m, rec.uid>>)
                        ELSE audio_buffers
    /\ UNCHANGED <<roomStore, roomTTL, aged, active_rooms, active_timers,
                   player_answers, timers, cleaner, graded, roomPlayers,
                   mmVars, bcVars, auVars>>

----------------------------------------------------------------------------
(* Text frames of the room WebSocket: json.loads and handle_room_message.  *)
(* A text frame is not JSON, or it is the JSON of a list or of an object   *)
(* with a "type" and one payload key (payload None: the key is absent).    *)
(* A "ready" object is WsReady.  The sends of a broadcast_to_room call     *)
(* made for a frame are one step and none of them fails (the loop send by  *)
(* send is BcastSend and BcastSendFail).                                   *)

NotJson == [json |-> FALSE, object |-> FALSE, type |-> None, payload |-> None]
JsonList == [json |-> TRUE, object |-> FALSE, type |-> None, payload |-> None]
JsonObject(type, payload) ==
    [json |-> TRUE, object |-> TRUE, type |-> type, payload |-> payload]

\* the frame that json.loads rejects is not answered
NoReply(box, ws) == box

\* except json.JSONDecodeError: the error is sent on the handler's socket
InvalidFormat(box, ws) ==
    Write(box, ws, [type |-> "error", body |-> "Invalid message format"])

\* no branch excludes the sender
NoExclude(uid) == None

\* exclude_player = player_uid
ExcludeSender(uid) == uid

\* handle_room_message: the broadcast_to_room call of the branch taken, if
\* the branch makes one
RoomMessage(uid, data) ==
    CASE data.type = "chat" ->
            [send |-> TRUE, exclude |-> None,
             msg |-> [type |-> "chat",
                      body |-> <<uid, IF data.payload = None THEN ""
                                      ELSE data.payload>>]]
      [] data.type = "signal" ->
            [send |-> TRUE, exclude |-> ExcludeSender(uid),
             msg |-> [type |-> "signal", body |-> <<uid, data.payload>>]]
      [] data.type = "start_audio" ->
            [send |-> TRUE, exclude |-> ExcludeSender(uid),
             msg |-> [type |-> "player_speaking", body |-> <<uid, TRUE>>]]
      [] data.type = "stop_audio" ->
            [send |-> TRUE, exclude |-> ExcludeSender(uid),
             msg |-> [type |-> "player_speaking", body |-> <<uid, FALSE>>]]
      [] OTHER ->
            [send |-> FALSE, exclude |-> None,
             msg |-> [type |-> "none", body |-> <<>>]]

\* one turn of the receive loop for a text frame: json.loads raises
\* JSONDecodeError and the error is sent to the sender; or data.get raises
\* AttributeError (the value is a list), which is printed; or
\* handle_room_message runs.  The loop goes on in each case.  A socket is
\* takes at most MaxFrames text frames in a behaviour.
WsText(p, frame) ==
    LET rec == proc[p]
        out == RoomMessage(rec.uid, frame)
    IN
    /\ rec.pc = "ws_loop"
    /\ frames[p] < MaxFrames
    /\ frames' = [frames EXCEPT ![p] = @ + 1]
    /\ outbox' = IF ~frame.json THEN InvalidFormat(outbox, p)
                 ELSE IF ~frame.object THEN outbox
                 ELSE IF out.send
                 THEN WriteAll(outbox,
                               Snapshot(active_connections, rec.m, out.exclude),
                               out.msg)
                 ELSE outbox
    /\ UNCHANGED <<roomVars, mmVars, bcast, auVars>>

----------------------------------------------------------------------------
(* The store's clock: the age of a room and the expiry of its key *)

\* more than 10 minutes have passed since created_at
AgeRoom(m) ==
    /\ m \in DOMAIN roomPlayers /\ m \notin aged
    /\ aged' = aged \cup {m}
    /\ UNCHANGED <<roomStore, roomTTL, active_rooms, active_connections,
                   active_timers, player_answers, audio_buffers, timers, proc,
                   cleaner, graded, roomPlayers, mmVars, bcVars, auVars>>

\* ROOM_TTL_SECONDS after EXPIRE the key is removed; EXPIRE follows
\* created_at, so the room is older than 10 minutes by then
ExpireRoom(m) ==
    /\ m \in roomTTL /\ m \in aged
    /\ roomStore' = DelKey(roomStore, m)
    /\ roomTTL' = roomTTL \ {m}
    /\ UNCHANGED <<aged, active_rooms, active_connections, active_timers,
                   player_answers, audio_buffers, timers, proc, cleaner,
                   graded, roomPlayers, mmVars, bcVars, auVars>>

----------------------------------------------------------------------------
(* cleanup_expired_rooms (defined by match_room.py; one pass of its loop)  *)
(*   pc: idle, room (next: get_match_room of a member), srem, status       *)
(*       (update_room_status(ABANDONED)), usrem, await                     *)

CleanerIdle == [pc |-> "idle", todo |-> {}, m |-> NoMatch, target |-> 0]

\* smembers ACTIVE_ROOMS_SET
CleanScan ==
    /\ cleaner.pc = "idle"
    /\ active_rooms # {}
    /\ cleaner' = [CleanerIdle EXCEPT !.pc = "room", !.todo = active_rooms]
    /\ UNCHANGED <<roomStore, roomTTL, aged, active_rooms, active_connections,
                   active_timers, player_answers, audio_buffers, timers, proc,
                   graded, roomPlayers, mmVars, bcVars, auVars>>

\* the loop goes on with the members left, or sleeps
CleanNext(rec) ==
    IF rec.todo = {} THEN CleanerIdle ELSE [rec EXCEPT !.pc = "room"]

\* get_match_room of one member: a missing room is removed from the set; a
\* waiting room older than 10 minutes is marked abandoned; a hash without
\* created_at or status raises KeyError, which ends the pass
CleanRoom ==
    /\ cleaner.pc = "room"
    /\ \E m \in cleaner.todo :
        LET room == get_match_room(roomStore, m)
            rec == [cleaner EXCEPT !.todo = @ \ {m}, !.m = m]
        IN cleaner' =
            IF DOMAIN room = {} THEN [rec EXCEPT !.pc = "srem"]
            ELSE IF "created_at" \notin DOMAIN room THEN CleanerIdle
            ELSE IF m \in aged
                 THEN IF "status" \notin DOMAIN room THEN CleanerIdle
                      ELSE IF room["status"] = WAITING
                           THEN [rec EXCEPT !.pc = "status"]
                           ELSE CleanNext(rec)
            ELSE CleanNext(rec)
    /\ UNCHANGED <<roomStore, roomTTL, aged, active_rooms, active_connections,
                   active_timers, player_answers, audio_buffers, timers, proc,
                   graded, roomPlayers, mmVars, bcVars, auVars>>

CleanSrem ==
    /\ cleaner.pc = "srem"
    /\ active_rooms' = active_rooms \ {cleaner.m}
    /\ cleaner' = CleanNext(cleaner)
    /\ UNCHANGED <<roomStore, roomTTL, aged, active_connections,
                   active_timers, player_answers, audio_buffers, timers, proc,
                   graded, roomPlayers, mmVars, bcVars, auVars>>

\* update_room_status(ABANDONED): hset status, hset completed_at
CleanStatus ==
    /\ cleaner.pc = "status"
    /\ roomStore' = HSetMap(roomStore, cleaner.m,
                        [status |-> ABANDONED, completed_at |-> "ts"])
    /\ cleaner' = [cleaner EXCEPT !.pc = "usrem"]
    /\ UNCHANGED <<roomTTL, aged, active_rooms, active_connections,
                   active_timers, player_answers, audio_buffers, timers, proc,
                   graded, roomPlayers, mmVars, bcVars, auVars>>

\* srem, then cancel_match_timer
CleanUsrem ==
    /\ cleaner.pc = "usrem"
    /\ active_rooms' = active_rooms \ {cleaner.m}
    /\ IF cleaner.m \in DOMAIN active_timers
       THEN /\ timers' = CancelTask(timers, active_timers[cleaner.m])
            /\ cleaner' = [cleaner EXCEPT !.pc = "await",
                                          !.target = active_timers[cleaner.m]]
       ELSE /\ cleaner' = CleanNext(cleaner)
            /\ UNCHANGED timers
    /\ UNCHANGED <<roomStore, roomTTL, aged, active_connections,
                   active_timers, player_answers, audio_buffers, proc,
                   graded, roomPlayers, mmVars, bcVars, auVars>>

\* the awaited task has ended; the exception of a failed task ends the pass
CleanAwaited ==
    /\ cleaner.pc = "await"
    /\ TimerDone(cleaner.target)
    /\ cleaner' = IF timers[cleaner.target].result = "error" THEN CleanerIdle
                  ELSE CleanNext(cleaner)
    /\ UNCHANGED <<roomStore, roomTTL, aged, active_rooms, active_connections,
                   active_timers, player_answers, audio_buffers, timers, proc,
                   graded, roomPlayers, mmVars, bcVars, auVars>>

----------------------------------------------------------------------------
(* Matchmaking: the queue (matchmaking.py), the polling task             *)
(* matchmaking_background_task and the /ws/join handlers                   *)
(* (websocketserver.py).                                                   *)
(*   mm.pc: idle (asleep between polls), llen (try_match_players was       *)
(*       called), lpop1, lpop2, lpush (p2 was missing), time, c_hset /     *)
(*       c_expire / c_sadd (the awaits of                                  *)
(*       create_match_room), requeue1, requeue2, publish                   *)
(*   mm.p1, mm.p2, mm.m: the pair and the match id of the cycle; mm.chan0: *)
(*       messages published before it                                      *)
(*   joins[c].pc: idle (no handler), queued (enqueue_player done: the      *)
(*       handler sends "queued" and then listens for its match)            *)
(*   joins[c].uid: the user_id of the handler's session                    *)

MMIdle ==
    [pc |-> "idle", p1 |-> None, p2 |-> None, m |-> NoMatch, chan0 |-> 0]
\* mmHist.left: the uids whose handler ran dequeue_player and who have not
\* enqueued again since
MMHistNone == [removed |-> FALSE, fails |-> 0, left |-> {}]
\* the /ws/join connections, and the one each user of the one-connection
\* specifications joins on
JoinConns == {"j1", "j2", "j3", "j4"}
ConnOf(u) ==
    CASE u = "u1" -> "j1" [] u = "u2" -> "j2" [] u = "u3" -> "j3" [] u = "u4" -> "j4"
JoinIdle == [pc |-> "idle", uid |-> None]

\* a push that lands at the head, a pop that takes the newest entry
PushAtHead(q, u) == <<u>> \o q
PopNewest(q) == IF q = <<>> THEN None ELSE q[Len(q)]

\* LPUSH, RPUSH, the value of LPOP (None on an empty list), what LPOP
\* leaves, LREM key 0 value
\* (a push that is lost)
DropUid(q, u) == q
LPush(q, u) == <<u>> \o q
RPush(q, u) == Append(q, u)
LPopValue(q) == IF q = <<>> THEN None ELSE Head(q)
\* (a pop that leaves its entry in the list)
PopNothing(q) == q
LPopRest(q) == IF q = <<>> THEN q ELSE Tail(q)
LRem(q, u) == SelectSeq(q, LAMBDA x : x # u)

\* the cycle is over: the task sleeps until the next poll
MMReturn == MMIdle

\* asyncio.sleep(1) is over: the polling task calls try_match_players
MMWake ==
    /\ mm.pc = "idle"
    /\ mm' = [MMIdle EXCEPT !.pc = "llen"]
    /\ UNCHANGED <<roomVars, bcVars, auVars, queue, joins, channel, redisTime, enqLog, mmHist>>

\* queue_size = await redis_client.llen(MATCH_QUEUE)
MMLlen ==
    /\ mm.pc = "llen"
    /\ mm' = IF Len(queue) < 2 THEN MMReturn
             ELSE [MMIdle EXCEPT !.pc = "lpop1", !.chan0 = Len(channel)]
    /\ UNCHANGED <<roomVars, bcVars, auVars, queue, joins, channel, redisTime, enqLog, mmHist>>

\* p1 = await redis_client.lpop(MATCH_QUEUE)
MMLpop1 ==
    /\ mm.pc = "lpop1"
    /\ mm' = [mm EXCEPT !.pc = "lpop2", !.p1 = LPopValue(queue)]
    /\ queue' = LPopRest(queue)
    /\ UNCHANGED <<roomVars, bcVars, auVars, joins, channel, redisTime, enqLog, mmHist>>

\* p2 = await redis_client.lpop(MATCH_QUEUE), then the checks of p1 and p2
MMLpop2 ==
    LET p2 == LPopValue(queue) IN
    /\ mm.pc = "lpop2"
    /\ mm' = IF mm.p1 = None THEN MMReturn
             ELSE IF p2 = None THEN [mm EXCEPT !.pc = "lpush"]
             ELSE [mm EXCEPT !.pc = "time", !.p2 = p2]
    /\ queue' = LPopRest(queue)
    /\ UNCHANGED <<roomVars, bcVars, auVars, joins, channel, redisTime, enqLog, mmHist>>

\* await redis_client.lpush(MATCH_QUEUE, p1)
MMLpush ==
    /\ mm.pc = "lpush"
    /\ queue' = LPush(queue, mm.p1)
    /\ mm' = MMReturn
    /\ UNCHANGED <<roomVars, bcVars, auVars, joins, channel, redisTime, enqLog, mmHist>>

\* redis_time = await redis_client.time(), and the match id
MMTime ==
    /\ mm.pc = "time"
    /\ mm' = [mm EXCEPT !.pc = "c_hset", !.m = MatchId(mm.p1, mm.p2, redisTime)]
    /\ UNCHANGED <<roomVars, bcVars, auVars, queue, joins, channel, redisTime, enqLog, mmHist>>

\* create_match_room: hset of the room
MMCreateHset ==
    /\ mm.pc = "c_hset"
    /\ roomStore' = HSetMap(roomStore, mm.m, CreateRoomHash(mm.m, mm.p1, mm.p2))
    /\ roomPlayers' = (mm.m :> <<mm.p1, mm.p2>>) @@ roomPlayers
    /\ mm' = [mm EXCEPT !.pc = "c_expire"]
    /\ UNCHANGED <<roomTTL, aged, active_rooms, active_connections,
                   active_timers, player_answers, audio_buffers, timers, proc,
                   cleaner, graded, queue, joins, channel, redisTime, enqLog,
                   mmHist, bcVars, auVars>>

\* create_match_room: expire
MMCreateExpire ==
    /\ mm.pc = "c_expire"
    /\ roomTTL' = roomTTL \cup {mm.m}
    /\ mm' = [mm EXCEPT !.pc = "c_sadd"]
    /\ UNCHANGED <<roomStore, aged, active_rooms, active_connections,
                   active_timers, player_answers, audio_buffers, timers, proc,
                   cleaner, graded, roomPlayers, queue, joins, channel,
                   redisTime, enqLog, mmHist, bcVars, auVars>>

\* create_match_room: sadd; the room is created
MMCreateSadd ==
    /\ mm.pc = "c_sadd"
    /\ active_rooms' = active_rooms \cup {mm.m}
    /\ mm' = [mm EXCEPT !.pc = "publish"]
    /\ UNCHANGED <<roomStore, roomTTL, aged, active_connections,
                   active_timers, player_answers, audio_buffers, timers, proc,
                   cleaner, graded, roomPlayers, queue, joins, channel,
                   redisTime, enqLog, mmHist, bcVars, auVars>>

\* a store command of create_match_room raises: the except block re-queues
MMCreateFail ==
    /\ mm.pc \in {"c_hset", "c_expire", "c_sadd"}
    /\ mmHist.fails < MaxFailures
    /\ mm' = [mm EXCEPT !.pc = "requeue1"]
    /\ mmHist' = [mmHist EXCEPT !.fails = @ + 1]
    /\ UNCHANGED <<roomVars, bcVars, auVars, queue, joins, channel, redisTime, enqLog>>

\* await redis_client.rpush(MATCH_QUEUE, p1_uid)
MMRequeue1 ==
    /\ mm.pc = "requeue1"
    /\ queue' = RPush(queue, mm.p1)
    /\ mm' = [mm EXCEPT !.pc = "requeue2"]
    /\ UNCHANGED <<roomVars, bcVars, auVars, joins, channel, redisTime, enqLog, mmHist>>

\* await redis_client.rpush(MATCH_QUEUE, p2_uid); return
MMRequeue2 ==
    /\ mm.pc = "requeue2"
    /\ queue' = RPush(queue, mm.p2)
    /\ mm' = MMReturn
    /\ UNCHANGED <<roomVars, bcVars, auVars, joins, channel, redisTime, enqLog, mmHist>>

\* await redis_client.publish(MATCH_CHANNEL, message)
MMPublish ==
    /\ mm.pc = "publish"
    /\ channel' = Append(channel,
                    [players |-> <<mm.p1, mm.p2>>, match_id |-> mm.m])
    /\ mm' = MMReturn
    /\ UNCHANGED <<roomVars, bcVars, auVars, queue, joins, redisTime, enqLog, mmHist>>

\* join_websocket up to enqueue_player(user_id)
JoinEnqueue(c, u) ==
    /\ joins[c].pc = "idle"
    /\ Len(enqLog) < MaxEnqueues
    /\ queue' = RPush(queue, u)
    /\ enqLog' = Append(enqLog, u)
    /\ joins' = [joins EXCEPT ![c] = [pc |-> "queued", uid |-> u]]
    /\ mmHist' = [mmHist EXCEPT !.left = @ \ {u}]
    /\ UNCHANGED <<roomVars, bcVars, auVars, mm, channel, redisTime>>

\* the client disconnects while the "queued" message is sent, before the try
\* block: the handler ends, its finally block does not run
JoinAbort(c) ==
    /\ joins[c].pc = "queued"
    /\ joins' = [joins EXCEPT ![c] = JoinIdle]
    /\ UNCHANGED <<roomVars, bcVars, auVars, queue, mm, channel, redisTime, enqLog, mmHist>>

\* the loop over listen_for_match ends (a match naming the user, or the
\* client disconnects); finally: await dequeue_player(user_id)
JoinDequeue(c) ==
    LET u == joins[c].uid IN
    /\ joins[c].pc = "queued"
    /\ queue' = LRem(queue, u)
    /\ mmHist' = [mmHist EXCEPT !.removed = @ \/ LRem(queue, u) # queue,
                                 !.left = @ \cup {u}]
    /\ joins' = [joins EXCEPT ![c] = JoinIdle]
    /\ UNCHANGED <<roomVars, bcVars, auVars, mm, channel, redisTime, enqLog>>

----------------------------------------------------------------------------
(* The matchmaking specification: an empty queue, no room *)

InitMM ==
    /\ roomStore = <<>>
    /\ roomTTL = {}
    /\ aged = {}
    /\ active_rooms = {}
    /\ active_connections = <<>>
    /\ active_timers = <<>>
    /\ player_answers = <<>>
    /\ audio_buffers = <<>>
    /\ timers = <<>>
    /\ proc = [p \in ProcIds |-> ProcIdle]
    /\ cleaner = CleanerIdle
    /\ graded = <<>>
    /\ roomPlayers = <<>>
    /\ queue = <<>>
    /\ mm = MMIdle
    /\ joins = [c \in JoinConns |-> JoinIdle]
    /\ channel = <<>>
    /\ redisTime = 1
    /\ enqLog = <<>>
    /\ mmHist = MMHistNone
    /\ outbox = [p \in ProcIds |-> <<>>]
    /\ frames = [p \in ProcIds |-> 0]
    /\ bcast = BcastIdle
    /\ heard = <<>>
    /\ handed = <<>>

\* user ids are opaque to the program: a user who has not joined before
\* joins only after the users before it in this order have
JoinOrder == <<"u1", "u2", "u3", "u4">>
Joined(u) == \E i \in 1..Len(enqLog) : enqLog[i] = u
MayJoin(u) ==
    \A i \in 2..Len(JoinOrder) : JoinOrder[i] = u => Joined(JoinOrder[i - 1])

\* a cycle of try_match_players whose store commands all succeed
MMStep ==
    \/ MMWake
    \/ MMLlen
    \/ MMLpop1
    \/ MMLpop2
    \/ MMLpush
    \/ MMTime
    \/ MMCreateHset
    \/ MMCreateExpire
    \/ MMCreateSadd
    \/ MMPublish

NextMM ==
    \/ MMStep
    \/ \E u \in UIDs :
            \/ MayJoin(u) /\ JoinEnqueue(ConnOf(u), u)
            \/ JoinAbort(ConnOf(u))
            \/ JoinDequeue(ConnOf(u))

SpecMM == InitMM /\ [][NextMM]_vars

----------------------------------------------------------------------------
(* The cycle specification: the polling task alone, started on a queue of  *)
(* up to MaxEnqueues users, each enqueued once by a handler that is still  *)
(* listening.  Nobody joins or leaves, so the second pop of a cycle finds  *)
(* its uid.                                                                *)

StartQueues ==
    {q \in UNION {[1..n -> UIDs] : n \in 0..MaxEnqueues} :
        \A i, j \in DOMAIN q : i # j => q[i] # q[j]}

InitCycle ==
    /\ roomStore = <<>>
    /\ roomTTL = {}
    /\ aged = {}
    /\ active_rooms = {}
    /\ active_connections = <<>>
    /\ active_timers = <<>>
    /\ player_answers = <<>>
    /\ audio_buffers = <<>>
    /\ timers = <<>>
    /\ proc = [p \in ProcIds |-> ProcIdle]
    /\ cleaner = CleanerIdle
    /\ graded = <<>>
    /\ roomPlayers = <<>>
    /\ queue \in StartQueues
    /\ mm = MMIdle
    /\ joins = [c \in JoinConns |->
                    IF \E i \in DOMAIN queue : ConnOf(queue[i]) = c
                    THEN [pc |-> "queued",
                          uid |-> CHOOSE u \in UIDs : ConnOf(u) = c]
                    ELSE JoinIdle]
    /\ channel = <<>>
    /\ redisTime = 1
    /\ enqLog = queue
    /\ mmHist = MMHistNone
    /\ outbox = [p \in ProcIds |-> <<>>]
    /\ frames = [p \in ProcIds |-> 0]
    /\ bcast = BcastIdle
    /\ heard = <<>>
    /\ handed = <<>>

NextCycle ==
    \/ MMWake
    \/ MMLlen
    \/ MMLpop1
    \/ MMLpop2
    \/ MMTime
    \/ MMCreateHset
    \/ MMCreateExpire
    \/ MMCreateSadd
    \/ MMPublish

SpecCycle == InitCycle /\ [][NextCycle]_vars

----------------------------------------------------------------------------
(* The re-queue specification: matchmaking of three users, where the store *)
(* commands of create_match_room can fail.                                 *)

RequeueUsers == {"u1", "u2", "u3"}

NextRequeue ==
    \/ MMStep
    \/ MMCreateFail
    \/ MMRequeue1
    \/ MMRequeue2
    \/ \E u \in RequeueUsers :
            \/ MayJoin(u) /\ JoinEnqueue(ConnOf(u), u)
            \/ JoinAbort(ConnOf(u))
            \/ JoinDequeue(ConnOf(u))

SpecRequeue == InitMM /\ [][NextRequeue]_vars

----------------------------------------------------------------------------
(* The double-join specification: matchmaking of two users who can each    *)
(* be signed in on several /ws/join connections at once.                   *)

TwiceUsers == {"u1", "u2"}
TwiceConns == {"j1", "j2", "j3"}

NextTwice ==
    \/ MMStep
    \/ \E c \in TwiceConns :
            \/ \E u \in TwiceUsers : JoinEnqueue(c, u)
            \/ JoinAbort(c)
            \/ JoinDequeue(c)

SpecTwice == InitMM /\ [][NextTwice]_vars

----------------------------------------------------------------------------
(* The clock specification: matchmaking of three users under the store's   *)
(* clock.  redisTime is the whole seconds of TIME; it can advance at any   *)
(* moment, and it advances by at least one while the polling task sleeps   *)
(* its second between two cycles.                                         *)

MaxClock == 4
ClockUsers == {"u1", "u2", "u3"}

\* the store's clock reaches the next whole second
ClockTick ==
    /\ redisTime < MaxClock
    /\ redisTime' = redisTime + 1
    /\ UNCHANGED <<roomVars, bcVars, auVars, queue, mm, joins, channel, enqLog, mmHist>>

\* the whole seconds the clock can show at the end of a sleep that began
\* at t
\* (a sleep that can be over within the second it began in)
NoSleep(t) == t..MaxClock
Slept(t) == (t + 1)..MaxClock

\* await asyncio.sleep(1) of the polling loop, then the next call of
\* try_match_players
MMSleep ==
    /\ mm.pc = "idle"
    /\ redisTime' \in Slept(redisTime)
    /\ mm' = [MMIdle EXCEPT !.pc = "llen"]
    /\ UNCHANGED <<roomVars, bcVars, auVars, queue, joins, channel, enqLog, mmHist>>

\* the polling task has been started and calls try_match_players
InitClock ==
    /\ roomStore = <<>>
    /\ roomTTL = {}
    /\ aged = {}
    /\ active_rooms = {}
    /\ active_connections = <<>>
    /\ active_timers = <<>>
    /\ player_answers = <<>>
    /\ audio_buffers = <<>>
    /\ timers = <<>>
    /\ proc = [p \in ProcIds |-> ProcIdle]
    /\ cleaner = CleanerIdle
    /\ graded = <<>>
    /\ roomPlayers = <<>>
    /\ queue = <<>>
    /\ mm = [MMIdle EXCEPT !.pc = "llen"]
    /\ joins = [c \in JoinConns |-> JoinIdle]
    /\ channel = <<>>
    /\ redisTime = 1
    /\ enqLog = <<>>
    /\ mmHist = MMHistNone
    /\ outbox = [p \in ProcIds |-> <<>>]
    /\ frames = [p \in ProcIds |-> 0]
    /\ bcast = BcastIdle
    /\ heard = <<>>
    /\ handed = <<>>

NextClock ==
    \/ ClockTick
    \/ MMSleep
    \/ MMLlen
    \/ MMLpop1
    \/ MMLpop2
    \/ MMLpush
    \/ MMTime
    \/ MMCreateHset
    \/ MMCreateExpire
    \/ MMCreateSadd
    \/ MMPublish
    \/ \E u \in ClockUsers :
            \/ MayJoin(u) /\ JoinEnqueue(ConnOf(u), u)
            \/ JoinAbort(ConnOf(u))
            \/ JoinDequeue(ConnOf(u))

SpecClock == InitClock /\ [][NextClock]_vars

----------------------------------------------------------------------------
(* The store-failure specification: the polling task alone on a queue of   *)
(* users who stay, where every store command after the two pops can raise. *)

\* redis_client.time() raises: the except block of try_match_players
\* prints, the cycle is over
MMTimeFail ==
    /\ mm.pc = "time"
    /\ mmHist.fails < MaxFailures
    /\ mm' = MMReturn
    /\ mmHist' = [mmHist EXCEPT !.fails = @ + 1]
    /\ UNCHANGED <<roomVars, bcVars, auVars, queue, joins, channel, redisTime, enqLog>>

\* redis_client.publish raises, after create_match_room has returned: the
\* except block of try_match_players prints, the cycle is over
MMPublishFail ==
    /\ mm.pc = "publish"
    /\ mmHist.fails < MaxFailures
    /\ mm' = MMReturn
    /\ mmHist' = [mmHist EXCEPT !.fails = @ + 1]
    /\ UNCHANGED <<roomVars, bcVars, auVars, queue, joins, channel, redisTime, enqLog>>

NextDrop ==
    \/ NextCycle
    \/ MMCreateFail
    \/ MMRequeue1
    \/ MMRequeue2
    \/ MMTimeFail
    \/ MMPublishFail

SpecDrop == InitCycle /\ [][NextDrop]_vars

----------------------------------------------------------------------------
(* The listening specification: three users join once each and stay        *)
(* connected; a handler subscribes to the match channel after it has       *)
(* enqueued its user, and is delivered the events published from then on.  *)
(*   joins[c].pc: listening (subscribed), matched (match_found sent, the   *)
(*       loop left), done (the finally block has run)                      *)
(*   joins[c].next: the index in channel of the next event the             *)
(*       subscription delivers; joins[c].sent: the match_found messages    *)
(*       sent to the client                                                *)

ListenUsers == {"u1", "u2", "u3"}

\* the message join_websocket sends user u for event ev
MatchFound(u, ev) ==
    [status |-> "match_found",
     partner |-> IF ev.players[1] = u THEN ev.players[2] ELSE ev.players[1],
     match_id |-> ev.match_id]

\* the "queued" message is sent; listen_for_match subscribes: the
\* subscription delivers what is published after it
JoinListen(c) ==
    /\ joins[c].pc = "queued"
    /\ joins' = [joins EXCEPT ![c] =
                    [pc |-> "listening", uid |-> joins[c].uid,
                     next |-> Len(channel) + 1, sent |-> <<>>]]
    /\ UNCHANGED <<roomVars, bcVars, auVars, queue, mm, channel, redisTime, enqLog, mmHist>>

\* one iteration of the loop over listen_for_match
JoinHear(c) ==
    LET j == joins[c] IN
    /\ j.pc = "listening"
    /\ j.next <= Len(channel)
    /\ joins' = [joins EXCEPT ![c] =
                    IF \E k \in 1..2 : channel[j.next].players[k] = j.uid
                    THEN [j EXCEPT !.pc = "matched",
                                   !.sent = Append(@, MatchFound(j.uid, channel[j.next]))]
                    ELSE [j EXCEPT !.next = @ + 1]]
    /\ UNCHANGED <<roomVars, bcVars, auVars, queue, mm, channel, redisTime, enqLog, mmHist>>

\* break, then finally: await dequeue_player(user_id)
JoinFinally(c) ==
    LET u == joins[c].uid IN
    /\ joins[c].pc = "matched"
    /\ queue' = LRem(queue, u)
    /\ mmHist' = [mmHist EXCEPT !.removed = @ \/ LRem(queue, u) # queue,
                                 !.left = @ \cup {u}]
    /\ joins' = [joins EXCEPT ![c].pc = "done"]
    /\ UNCHANGED <<roomVars, bcVars, auVars, mm, channel, redisTime, enqLog>>

JoinStep(c) == JoinListen(c) \/ JoinHear(c) \/ JoinFinally(c)

NextListen ==
    \/ NextCycle
    \/ \E u \in ListenUsers :
            \/ MayJoin(u) /\ JoinEnqueue(ConnOf(u), u)
            \/ JoinListen(ConnOf(u))
            \/ JoinHear(ConnOf(u))
            \/ JoinFinally(ConnOf(u))

SpecListen == InitMM /\ [][NextListen]_vars

\* the event loop runs every task that can take a step: the polling task
\* and each handler
FairListen ==
    /\ SpecListen
    /\ WF_vars(NextCycle)
    /\ \A u \in ListenUsers : WF_vars(JoinStep(ConnOf(u)))

----------------------------------------------------------------------------
(* The room specification: one room, created by create_match_room for u1   *)
(* and u2, and everything that can happen to it afterwards.                *)


InitRoom ==
    /\ roomStore = (M1 :> CreateRoomHash(M1, "u1", "u2"))
    /\ roomTTL = {M1}
    /\ aged = {}
    /\ active_rooms = {M1}
    /\ active_connections = <<>>
    /\ active_timers = <<>>
    /\ player_answers = <<>>
    /\ audio_buffers = <<>>
    /\ timers = [t \in 1..RoomTimers |-> TimerNone]
    /\ proc = [p \in ProcIds |-> ProcIdle]
    /\ cleaner = CleanerIdle
    /\ graded = [k \in {M1} \X UIDs |-> 0]
    /\ roomPlayers = (M1 :> <<"u1", "u2">>)
    /\ queue = <<>>
    /\ mm = MMIdle
    /\ joins = <<>>
    /\ channel = <<>>
    /\ redisTime = 1
    /\ enqLog = <<>>
    /\ mmHist = MMHistNone
    /\ outbox = [p \in ProcIds |-> <<>>]
    /\ frames = [p \in ProcIds |-> 0]
    /\ bcast = BcastIdle
    /\ heard = <<>>
    /\ handed = <<>>

Players == {"u1", "u2"}
\* the request slot of each player
SlotOf(u) == IF u = "u1" THEN "h1" ELSE "h2"

NextRoom ==
    \/ \E t \in TimerIds : TimerStep(t)
    \/ \E c \in Players :
            \/ StartCall(SlotOf(c), "ready", c, M1)
            \/ StartCall(SlotOf(c), "force", c, M1)
    \/ WsConnect("w1", "u1", M1)
    \/ \E p \in ProcIds :
            \/ ReadyRead(p)
            \/ ReadyFlag(p)
            \/ ReadyQuestion(p)
            \/ ReadyStatus(p)
            \/ ForceRead(p)
            \/ ForceCancelStep(p)
            \/ ForceAwaited(p)
            \/ WsAudio(p, 2 * CHUNK_DURATION)
            \/ WsDisconnect(p)

SpecRoom == InitRoom /\ [][NextRoom]_vars

----------------------------------------------------------------------------
(* The readiness specification: the same room, with the players' ready     *)
(* calls (POST /ready) repeated at will.                                   *)

InitReady ==
    /\ roomStore = (M1 :> CreateRoomHash(M1, "u1", "u2"))
    /\ roomTTL = {M1}
    /\ aged = {}
    /\ active_rooms = {M1}
    /\ active_connections = <<>>
    /\ active_timers = <<>>
    /\ player_answers = <<>>
    /\ audio_buffers = <<>>
    /\ timers = [t \in 1..MaxTimers |-> TimerNone]
    /\ proc = [p \in ProcIds |-> ProcIdle]
    /\ cleaner = CleanerIdle
    /\ graded = [k \in {M1} \X UIDs |-> 0]
    /\ roomPlayers = (M1 :> <<"u1", "u2">>)
    /\ queue = <<>>
    /\ mm = MMIdle
    /\ joins = <<>>
    /\ channel = <<>>
    /\ redisTime = 1
    /\ enqLog = <<>>
    /\ mmHist = MMHistNone
    /\ outbox = [p \in ProcIds |-> <<>>]
    /\ frames = [p \in ProcIds |-> 0]
    /\ bcast = BcastIdle
    /\ heard = <<>>
    /\ handed = <<>>

NextReady ==
    \/ \E t \in TimerIds : TimerStep(t)
    \/ \E t \in TimerIds : TimerFault(t)
    \/ \E c \in Players : StartCall(SlotOf(c), "ready", c, M1)
    \/ \E p \in ProcIds :
            \/ ReadyRead(p)
            \/ ReadyFlag(p)
            \/ ReadyQuestion(p)
            \/ ReadyStatus(p)

SpecReady == InitReady /\ [][NextReady]_vars

----------------------------------------------------------------------------
(* The direct-call specification: the same room, the players' ready calls, *)
(* and set_player_ready called for the room with the uid of a user who is  *)
(* not one of its players.                                                 *)

Stranger == "u3"

NextDirect ==
    \/ \E t \in TimerIds : TimerStep(t)
    \/ \E c \in Players : StartCall(SlotOf(c), "ready", c, M1)
    \/ CallReady("h3", Stranger, M1)
    \/ \E p \in ProcIds :
            \/ ReadyRead(p)
            \/ ReadyFlag(p)
            \/ ReadyQuestion(p)
            \/ ReadyStatus(p)

SpecDirect == InitReady /\ [][NextDirect]_vars

----------------------------------------------------------------------------
(* The access specification: the same room and a match id no room exists   *)
(* for, requests of every kind from players, other users and callers       *)
(* without a session, served one after the other, and the expiry of the    *)
(* room's key.                                                             *)

NextAccess ==
    \/ \E t \in TimerIds : TimerStep(t)
    \/ \E c \in Callers, m \in RoomIds :
            \/ StartCall("h1", "ready", c, m)
            \/ StartCall("h1", "force", c, m)
            \/ StartCall("h1", "transcript", c, m)
            \/ StartInfo("h1", c, m)
            \/ WsConnect("h1", c, m)
    \/ \E p \in ProcIds :
            \/ InfoVerify(p)
            \/ ReadyRead(p)
            \/ ReadyFlag(p)
            \/ ReadyQuestion(p)
            \/ ReadyStatus(p)
            \/ ForceRead(p)
            \/ ForceCancelStep(p)
            \/ ForceAwaited(p)
            \/ WsReady(p)
            \/ WsDisconnect(p)
    \/ AgeRoom(M1)
    \/ ExpireRoom(M1)

SpecAccess == InitRoom /\ [][NextAccess]_vars

----------------------------------------------------------------------------
(* The expiry specification: the same room; both players open the room     *)
(* WebSocket (which marks them ready) and stay connected, they send audio, *)
(* the timer runs down and grades, the grader can fail, and the room's key *)
(* can reach the end of its TTL.  Nobody calls force_complete.             *)

NextExpiry ==
    \/ \E t \in TimerIds : TimerStep(t)
    \/ \E t \in TimerIds : TimerGradeFail(t)
    \/ WsConnect("w1", "u1", M1)
    \/ WsConnect("w2", "u2", M1)
    \/ \E p \in WsIds :
            \/ ReadyRead(p)
            \/ ReadyFlag(p)
            \/ ReadyQuestion(p)
            \/ ReadyStatus(p)
            \/ WsAudio(p, 2 * CHUNK_DURATION)
    \/ AgeRoom(M1)
    \/ ExpireRoom(M1)

SpecExpiry == InitRoom /\ [][NextExpiry]_vars

----------------------------------------------------------------------------
(* The countdown specification: a match of any duration from 1 second to   *)
(* MaxDuration has just started: both players are connected and ready, the *)
(* room is Active with a question and its timer task is created.  The task *)
(* runs uninterrupted: nobody connects, disconnects, sends or calls an     *)
(* endpoint, and no store command fails.                                   *)

InitCountdown ==
    /\ roomStore = HSetMap((M1 :> CreateRoomHash(M1, "u1", "u2")), M1,
                        [player1_ready |-> "true", player2_ready |-> "true",
                         question_id |-> "q1", question_text |-> "q1",
                         status |-> ACTIVE, started_at |-> "ts"])
    /\ roomTTL = {M1}
    /\ aged = {}
    /\ active_rooms = {M1}
    /\ active_connections = (M1 :> [u1 |-> "w1", u2 |-> "w2"])
    /\ active_timers = (M1 :> 1)
    /\ player_answers = <<>>
    /\ audio_buffers = <<>>
    /\ \E d \in 1..MaxDuration :
            timers = [t \in 1..1 |-> [NewTimer(M1) EXCEPT !.tr = d]]
    /\ proc = [p \in ProcIds |->
                 CASE p = "w1" -> [ProcIdle EXCEPT !.kind = "ws", !.uid = "u1",
                                        !.m = M1, !.pc = "ws_loop",
                                        !.ret = "ws_setup", !.role = 1]
                   [] p = "w2" -> [ProcIdle EXCEPT !.kind = "ws", !.uid = "u2",
                                        !.m = M1, !.pc = "ws_loop",
                                        !.ret = "ws_setup", !.role = 2,
                                        !.both = TRUE]
                   [] OTHER -> ProcIdle]
    /\ cleaner = CleanerIdle
    /\ graded = [k \in {M1} \X UIDs |-> 0]
    /\ roomPlayers = (M1 :> <<"u1", "u2">>)
    /\ queue = <<>>
    /\ mm = MMIdle
    /\ joins = <<>>
    /\ channel = <<>>
    /\ redisTime = 1
    /\ enqLog = <<>>
    /\ mmHist = MMHistNone
    /\ outbox = [p \in ProcIds |-> <<>>]
    /\ frames = [p \in ProcIds |-> 0]
    /\ bcast = BcastIdle
    /\ heard = <<>>
    /\ handed = <<>>

NextCountdown ==
    \E t \in TimerIds :
        \/ TimerRun(t)
        \/ Tick(t, TRUE)
        \/ TimerGradeRead(t)
        \/ TimerGradeBroadcast(t)
        \/ TimerStatus(t)
        \/ TimerSrem(t)
        \/ TimerAwaited(t)

SpecCountdown == InitCountdown /\ [][NextCountdown]_vars

\* the task is scheduled as long as it has a step to take
FairCountdown == SpecCountdown /\ WF_vars(NextCountdown)

----------------------------------------------------------------------------
(* The failure specification: the expiry specification, where also the     *)
(* store command of a countdown iteration can raise.                       *)

NextFault ==
    \/ NextExpiry
    \/ \E t \in TimerIds : TimerFault(t)

SpecFault == InitRoom /\ [][NextFault]_vars

----------------------------------------------------------------------------
(* The scenario specification: an empty queue and no room; u1 and u2 join  *)
(* matchmaking, the polling task pairs them and creates their room, and    *)
(* the two players mark themselves ready (POST /ready).                    *)

InitScenario ==
    /\ roomStore = <<>>
    /\ roomTTL = {}
    /\ aged = {}
    /\ active_rooms = {}
    /\ active_connections = <<>>
    /\ active_timers = <<>>
    /\ player_answers = <<>>
    /\ audio_buffers = <<>>
    /\ timers = [t \in 1..RoomTimers |-> TimerNone]
    /\ proc = [p \in ProcIds |-> ProcIdle]
    /\ cleaner = CleanerIdle
    /\ graded = [k \in {M1} \X UIDs |-> 0]
    /\ roomPlayers = <<>>
    /\ queue = <<>>
    /\ mm = MMIdle
    /\ joins = [c \in JoinConns |-> JoinIdle]
    /\ channel = <<>>
    /\ redisTime = 1
    /\ enqLog = <<>>
    /\ mmHist = MMHistNone
    /\ outbox = [p \in ProcIds |-> <<>>]
    /\ frames = [p \in ProcIds |-> 0]
    /\ bcast = BcastIdle
    /\ heard = <<>>
    /\ handed = <<>>

NextScenario ==
    \/ \E u \in Players : MayJoin(u) /\ JoinEnqueue(ConnOf(u), u)
    \* try_match_players; nobody leaves the queue, so the second pop finds p2
    \/ MMWake
    \/ MMLlen
    \/ MMLpop1
    \/ MMLpop2
    \/ MMTime
    \/ MMCreateHset
    \/ MMCreateExpire
    \/ MMCreateSadd
    \/ MMPublish
    \/ \E c \in Players : StartCall(SlotOf(c), "ready", c, M1)
    \/ \E p \in HttpIds :
            \/ ReadyRead(p)
            \/ ReadyFlag(p)
            \/ ReadyQuestion(p)
            \/ ReadyStatus(p)
    \/ \E t \in TimerIds : TimerStep(t)

SpecScenario == InitScenario /\ [][NextScenario]_vars

----------------------------------------------------------------------------
(* The broadcast specification: two rooms, M1 of u1 and u2 and M2 of u3    *)
(* and u4.  Players open and close room WebSockets (u1 also on a second    *)
(* socket) and broadcast_to_room is called for either room or for a room   *)
(* nobody is connected to, with and without an excluded player; a send can *)
(* fail.  The timer task of a started match is not scheduled while this    *)
(* goes on.                                                                *)

InitBroadcast ==
    /\ roomStore = (M1 :> CreateRoomHash(M1, "u1", "u2"))
                        @@ (M2 :> CreateRoomHash(M2, "u3", "u4"))
    /\ roomTTL = {M1, M2}
    /\ aged = {}
    /\ active_rooms = {M1, M2}
    /\ active_connections = <<>>
    /\ active_timers = <<>>
    /\ player_answers = <<>>
    /\ audio_buffers = <<>>
    /\ timers = [t \in 1..RoomTimers |-> TimerNone]
    /\ proc = [p \in ProcIds |-> ProcIdle]
    /\ cleaner = CleanerIdle
    /\ graded = [k \in {M1, M2} \X UIDs |-> 0]
    /\ roomPlayers = (M1 :> <<"u1", "u2">>) @@ (M2 :> <<"u3", "u4">>)
    /\ queue = <<>>
    /\ mm = MMIdle
    /\ joins = <<>>
    /\ channel = <<>>
    /\ redisTime = 1
    /\ enqLog = <<>>
    /\ mmHist = MMHistNone
    /\ outbox = [p \in ProcIds |-> <<>>]
    /\ frames = [p \in ProcIds |-> 0]
    /\ bcast = BcastIdle
    /\ heard = <<>>
    /\ handed = <<>>

\* a socket is an object of its own: a slot stands for one connection
FirstUse(p) == proc[p].pc = "idle"

NextBroadcast ==
    \/ \E m \in {M1, M2, M0} : \E exclude \in {None, "u1", "u3"} :
            BcastCall(m, exclude)
    \/ BcastSend
    \/ BcastSendFail
    \/ FirstUse("w1") /\ WsConnect("w1", "u1", M1)
    \/ FirstUse("w2") /\ WsConnect("w2", "u2", M1)
    \/ FirstUse("w3") /\ WsConnect("w3", "u1", M1)
    \/ FirstUse("w3") /\ WsConnect("w3", "u3", M2)
    \/ \E p \in WsIds :
            \/ ReadyRead(p)
            \/ ReadyFlag(p)
            \/ ReadyQuestion(p)
            \/ ReadyStatus(p)
            \/ WsDisconnect(p)

SpecBroadcast == InitBroadcast /\ [][NextBroadcast]_vars

----------------------------------------------------------------------------
(* The audio specification: the room of the readiness specification; both  *)
(* players open the room WebSocket, u2 can open it a second time, u1 sends *)
(* audio in chunks of two and of four seconds in which the transcriber     *)
(* recognizes nothing or one of two words, and the timer tasks run down    *)
(* and grade.                                                              *)

ChunkSizes == {CHUNK_DURATION, 2 * CHUNK_DURATION}
AudioTexts == {"", "a", "b"}

NextAudio ==
    \/ \E t \in TimerIds : TimerStep(t)
    \/ FirstUse("w1") /\ WsConnect("w1", "u1", M1)
    \/ FirstUse("w2") /\ WsConnect("w2", "u2", M1)
    \/ FirstUse("w3") /\ WsConnect("w3", "u2", M1)
    \/ \E p \in WsIds :
            \/ ReadyRead(p)
            \/ ReadyFlag(p)
            \/ ReadyQuestion(p)
            \/ ReadyStatus(p)
    \/ \E n \in ChunkSizes : \E text \in AudioTexts :
            AudioFrame("w1", n, text, MaxSpeech)

SpecAudio == InitReady /\ [][NextAudio]_vars

----------------------------------------------------------------------------
(* The frame specification: the room of the readiness specification; both  *)
(* players open the room WebSocket and disconnect, and u1 sends text       *)
(* frames of every kind.  The timer task of a started match is not         *)
(* scheduled while this goes on.                                           *)

MessageTypes ==
    {"chat", "signal", "start_audio", "stop_audio", "facial_tracking", "bogus"}
Payloads == {None, "x"}
TextFrames ==
    {NotJson, JsonList}
        \cup {JsonObject(type, payload) : type \in MessageTypes, payload \in Payloads}

NextFrames ==
    \/ FirstUse("w1") /\ WsConnect("w1", "u1", M1)
    \/ FirstUse("w2") /\ WsConnect("w2", "u2", M1)
    \/ \E p \in WsIds :
            \/ ReadyRead(p)
            \/ ReadyFlag(p)
            \/ ReadyQuestion(p)
            \/ ReadyStatus(p)
            \/ WsDisconnect(p)
    \/ \E frame \in TextFrames : WsText("w1", frame)

SpecFrames == InitReady /\ [][NextFrames]_vars

----------------------------------------------------------------------------
(* The chunk specification: the room of the readiness specification; both  *)
(* players open the room WebSocket and disconnect, and u1 sends audio in   *)
(* chunks of 1.5, 2.5 and 4 seconds, whose transcription can raise.  The   *)
(* timer task of a started match is not scheduled while this goes on.      *)

ChunkUnits == {3, 5, 2 * CHUNK_DURATION}

NextChunks ==
    \/ FirstUse("w1") /\ WsConnect("w1", "u1", M1)
    \/ FirstUse("w2") /\ WsConnect("w2", "u2", M1)
    \/ \E p \in WsIds :
            \/ ReadyRead(p)
            \/ ReadyFlag(p)
            \/ ReadyQuestion(p)
            \/ ReadyStatus(p)
            \/ WsDisconnect(p)
    \/ \E n \in ChunkUnits : WsAudio("w1", n)
    \/ \E n \in ChunkUnits : WsAudioFail("w1", n)

SpecChunks == InitReady /\ [][NextChunks]_vars

----------------------------------------------------------------------------
(* Properties of the room *)

StatusOf(m) == Get(Hash(roomStore, m), "status", "-")
QuestionOf(m) == Get(Hash(roomStore, m), "question_id", "-")
FlagOf(m, f) == DecodeBool(Get(Hash(roomStore, m), f, "False"))
\* the timer tasks created so far
CreatedTimers == {t \in TimerIds : timers[t].pc # "none"}
\* a handler is inside set_player_ready
InReady(p) == proc[p].pc \in {"r_read", "r_flag", "r_question", "r_status"}

\* C1: the grader is called at most once per player per match, whatever the
\* interleaving of expiry, cancellation and failure of the timer task
GraderAtMostOncePerPlayer == \A k \in DOMAIN graded : graded[k] <= 1

\* C2: once both ready flags are set and the room has left Waiting, no step
\* stores a question, sets the status to Active or creates a timer task
RepeatedReadyChangesNothing ==
    [][(FlagOf(M1, "player1_ready") /\ FlagOf(M1, "player2_ready")
            /\ StatusOf(M1) # WAITING)
        => /\ QuestionOf(M1)' = QuestionOf(M1)
           /\ CreatedTimers' = CreatedTimers
           /\ (StatusOf(M1)' = ACTIVE => StatusOf(M1) = ACTIVE)]_vars

\* C3: at most one timer task of a room is inside the timer function, and
\* active_timers[match_id] is that task
OneTimerPerRoom ==
    \A t \in TimerIds : TimerStarted(t) =>
        /\ \A u \in TimerIds :
                (TimerStarted(u) /\ timers[u].m = timers[t].m) => u = t
        /\ timers[t].m \in DOMAIN active_timers
        /\ active_timers[timers[t].m] = t

\* C4: the status of a room changes only from Waiting to Active and from
\* Active (or Waiting) to Completed or Abandoned
StatusSteps ==
    {<<WAITING, ACTIVE>>, <<ACTIVE, COMPLETED>>, <<ACTIVE, ABANDONED>>,
     <<WAITING, COMPLETED>>, <<WAITING, ABANDONED>>}
StatusOnlyForward ==
    [][StatusOf(M1)' = StatusOf(M1)
        \/ <<StatusOf(M1), StatusOf(M1)'>> \in StatusSteps]_vars

\* C5: when no call of set_player_ready is in progress and both ready flags
\* are set, the room is not Waiting: it has a question and a timer was
\* started for it
BothReadyStartsMatch ==
    (/\ \A p \in ProcIds : ~InReady(p)
     /\ FlagOf(M1, "player1_ready") /\ FlagOf(M1, "player2_ready"))
    => /\ StatusOf(M1) # WAITING
       /\ QuestionOf(M1) # "-"
       /\ CreatedTimers # {}

\* C10: a force_complete_match that was called on an Active room with its
\* timer running and answered 200 leaves the room Completed and its timer
\* tasks ended
ForceCompleteCompletes ==
    \A p \in HttpIds :
        (proc[p].kind = "force" /\ proc[p].pc = "done" /\ proc[p].resp = 200
            /\ proc[p].sawRunning)
        => /\ StatusOf(M1) = COMPLETED
           /\ \A t \in TimerIds : timers[t].m = M1 => TimerDone(t)

\* the two players a room was created for
PlayersOf(m) ==
    IF m \in DOMAIN roomPlayers THEN {roomPlayers[m][1], roomPlayers[m][2]}
    ELSE {}

\* C8: verify_player_access returns True when the room's key exists and the
\* uid is one of the room's two players, and False in every other case
VerifyAccessExact ==
    \A m \in RoomIds, u \in UIDs :
        verify_player_access(roomStore, m, u) =
            (IF m \in DOMAIN roomStore /\ u \in PlayersOf(m) THEN "True"
             ELSE "False")

\* a caller without a session, or one that is not a player of the room
Unauthorized(c, m) == c \notin UIDs \/ c \notin PlayersOf(m)
\* what a rejected request leaves alone
RoomState ==
    <<roomStore, active_rooms, active_connections, active_timers,
      player_answers, audio_buffers, timers>>
RejectedWith(p, codes) == proc[p].pc = "done" /\ proc[p].resp \in codes

\* C9: a request of an unauthorized caller to any entry point is answered
\* 401 or 403 (GET /info also 404, the WebSocket is closed with 1008) in a
\* step that changes neither the room nor the registry, and every uid in
\* the registry of a room is one of its players
EntryPointsReject ==
    /\ [][\A c \in Callers, m \in RoomIds : Unauthorized(c, m) =>
            /\ \A kind \in {"ready", "force", "transcript"} :
                    StartCall("h1", kind, c, m) =>
                        (RejectedWith("h1", {401, 403})' /\ UNCHANGED RoomState)
            /\ StartInfo("h1", c, m) =>
                    /\ \/ RejectedWith("h1", {401, 403, 404})'
                       \/ proc'["h1"].pc = "i_verify"
                    /\ UNCHANGED RoomState
            /\ WsConnect("h1", c, m) =>
                    (RejectedWith("h1", {1008})' /\ UNCHANGED RoomState)]_vars
    /\ [][(InfoVerify("h1") /\ Unauthorized(proc["h1"].uid, proc["h1"].m))
            => RejectedWith("h1", {401, 403, 404})']_vars
    /\ [](\A m \in DOMAIN active_connections :
            DOMAIN active_connections[m] \subseteq PlayersOf(m))

\* C14: no step of a set_player_ready call whose uid is neither player of
\* the room changes the room record or the timers, and the call reports
\* both_ready = False
StrangerReadyChangesNothing ==
    [][\A p \in ProcIds :
        (/\ InReady(p) /\ proc[p].uid \notin PlayersOf(proc[p].m)
         /\ \/ ReadyRead(p) \/ ReadyFlag(p)
            \/ ReadyQuestion(p) \/ ReadyStatus(p))
        => /\ UNCHANGED <<roomStore, active_timers, timers>>
           /\ proc'[p].pc = "done" => ~proc'[p].both]_vars

\* C15: the record of a room has the field time_remaining exactly when its
\* status is Active
TimeRemainingIffActive ==
    \A m \in DOMAIN roomStore :
        ("time_remaining" \in DOMAIN roomStore[m]) <=> (StatusOf(m) = ACTIVE)

ReadyFlags == {"player1_ready", "player2_ready"}
OtherFlag(rec) == IF rec.role = 1 THEN "player2_ready" ELSE "player1_ready"
MarksReady(p) == proc[p].pc = "r_flag" /\ proc'[p] # proc[p]
FlagAfter(m, f) == DecodeBool(Get(Hash(roomStore', m), f, "False"))

\* C16: the ready flags are monotonic.  In every step that leaves the room's
\* record in the store, a flag that is true before the step is true after
\* it, whichever operation takes the step; and the step of set_player_ready
\* that marks one player ready leaves the other player's flag as it was.
ReadyFlagsMonotonic ==
    [][ /\ \A m \in RoomIds : \A f \in ReadyFlags :
            (m \in DOMAIN roomStore /\ m \in DOMAIN roomStore' /\ FlagOf(m, f))
                => FlagAfter(m, f)
        /\ \A p \in ProcIds : MarksReady(p) =>
                FlagAfter(proc[p].m, OtherFlag(proc[p]))
                    = FlagOf(proc[p].m, OtherFlag(proc[p])) ]_vars

\* both players are ready and the match has since been completed
BothReadyKept ==
    /\ FlagOf(M1, "player1_ready")
    /\ FlagOf(M1, "player2_ready")
    /\ StatusOf(M1) = COMPLETED

\* the room has time_remaining, and it is n
TimeRemainingIs(m, n) ==
    LET room == get_match_room(roomStore, m) IN
    "time_remaining" \in DOMAIN room /\ room["time_remaining"] = n

\* C12: the room that try_match_players creates for the two enqueued uids
\* is Waiting with both ready flags false, and when the call of
\* set_player_ready that finds both players ready returns, the room is
\* Active with a question and time_remaining = MATCH_DURATION_SECONDS
ScenarioCreatesAndStarts ==
    /\ [][MMCreateHset =>
            /\ StatusOf(mm.m)' = WAITING
            /\ ~FlagOf(mm.m, "player1_ready")' /\ ~FlagOf(mm.m, "player2_ready")'
         ]_vars
    /\ [][\A p \in ProcIds : ReadyStatus(p) =>
            /\ StatusOf(proc[p].m)' = ACTIVE
            /\ QuestionOf(proc[p].m)' # "-"
            /\ TimeRemainingIs(proc[p].m, MATCH_DURATION_SECONDS)'
         ]_vars

\* the match_graded messages written to a socket
GradedMessages(p) ==
    {i \in 1..Len(outbox[p]) : outbox[p][i].type = "match_graded"}
\* the sockets registered for a room
SocketsOf(m) ==
    IF m \in DOMAIN active_connections
    THEN {active_connections[m][u] : u \in DOMAIN active_connections[m]}
    ELSE {}
\* the timer task t ends in this step
TimerEnds(t) == timers[t].pc # "done" /\ timers'[t].pc = "done"
\* the room's key has reached the end of its TTL
KeyGone(m) == m \notin DOMAIN roomStore

\* C11: when the timer task of a room whose two players are connected ends
\* after counting down to 0, the room is Completed and each of the two
\* sockets has been sent match_graded exactly once
ExpiryGradesOnce ==
    [][\A t \in TimerIds :
        (/\ TimerEnds(t) /\ timers'[t].result = "ok"
         /\ Cardinality(SocketsOf(timers[t].m)) = 2)
        => /\ StatusOf(timers[t].m)' = COMPLETED \/ KeyGone(timers[t].m)'
           /\ \A p \in SocketsOf(timers[t].m) :
                    Cardinality(GradedMessages(p)') = 1]_vars

\* C20: a grader failure for one player leaves an error entry for that
\* player and the loop goes on: a second player with an answer is graded in
\* the same step; when the task ends, match_graded with these results has
\* been sent to the connected sockets and the room is Completed
GradingFailureIsolated ==
    [][\A t \in TimerIds :
        LET rec == timers[t] IN
        /\ TimerGradeFail(t) =>
                /\ timers'[t].res[rec.gi] = "error"
                /\ (rec.gi = 1 /\ NextGradee(rec.m, rec.players, 2) = 2) =>
                        /\ timers'[t].pc = "g_wait" /\ timers'[t].gi = 2
                        /\ graded'[<<rec.m, rec.players[2]>>]
                                = graded[<<rec.m, rec.players[2]>>] + 1
        /\ (TimerEnds(t) /\ (rec.res[1] = "error" \/ rec.res[2] = "error")) =>
                /\ rec.res[1] # None /\ rec.res[2] # None
                /\ StatusOf(rec.m)' = COMPLETED \/ KeyGone(rec.m)'
                /\ \A p \in SocketsOf(rec.m) :
                        \E i \in GradedMessages(p) : outbox[p][i].body = rec.res
       ]_vars

\* the grader failed for u1 and graded u2; both sockets got these results
\* and the room is Completed
GradingFailureIsolatedReached ==
    /\ \E t \in TimerIds : timers[t].pc = "done" /\ timers[t].result = "ok"
    /\ StatusOf(M1) = COMPLETED
    /\ graded[<<M1, "u2">>] = 1
    /\ \A p \in {"w1", "w2"} :
            /\ Cardinality(GradedMessages(p)) = 1
            /\ \A i \in GradedMessages(p) :
                    outbox[p][i].body = <<"error", "success">>

\* the room WebSocket handler on socket p, which has registered, ends in
\* this step
HandlerEnds(p) ==
    /\ proc[p].kind = "ws" /\ proc[p].pc \notin {"idle", "done"}
    /\ proc'[p].pc = "done"

\* C19: when a room WebSocket handler that has registered ends, its
\* (match_id, uid) binding is no longer in the registry, the room has no
\* empty registry entry, and the room's record in the store is as it was.
HandlerEndCleansUp ==
    [][\A p \in WsIds : HandlerEnds(p) =>
        /\ ~(/\ proc[p].m \in DOMAIN active_connections'
              /\ proc[p].uid \in DOMAIN active_connections'[proc[p].m])
        /\ proc[p].m \in DOMAIN active_connections'
                => DOMAIN active_connections'[proc[p].m] # {}
        /\ roomStore' = roomStore]_vars

\* save_match_answers has returned for room m: the timer task that called
\* it has set grading_completed, or the room is Completed (the status every
\* path of the timer writes after its grading)
GradingHasRun(m) ==
    \/ \E t \in TimerIds : timers[t].m = m /\ timers[t].gc
    \/ StatusOf(m) = COMPLETED

\* C21: once the end-of-match grading of a room has run, neither player of
\* the room has a transcript accumulator, in that state and in every later
\* one
NoTranscriptAfterGrading ==
    \A m \in DOMAIN roomPlayers :
        GradingHasRun(m) =>
            \A i \in 1..2 : <<m, roomPlayers[m][i]>> \notin DOMAIN player_answers

\* the texts recognized so far for the player of key k, in arrival order
HeardOf(k) == IF k \in DOMAIN heard THEN heard[k] ELSE <<>>
AnswersOf(k) == IF k \in DOMAIN player_answers THEN player_answers[k] ELSE <<>>
BufferOf(k) == IF k \in DOMAIN audio_buffers THEN audio_buffers[k] ELSE 0
\* the grader is called for the player of key k in this step
GraderCalled(k) == k \notin DOMAIN handed \/ handed'[k] # handed[k]

\* C22: a frame that brings the player's buffered audio to CHUNK_DURATION
\* seconds or more and in which a non-empty text is recognized adds that
\* text at the end of the player's transcript and writes one transcription
\* message to every socket of the room; any other frame leaves the
\* transcripts as they are and writes nothing.  The answer the grader is
\* called with is the sequence of all the non-empty texts recognized for the
\* player, in arrival order.
AnswerIsWhatWasHeard ==
    [][ /\ \A p \in WsIds : \A n \in ChunkSizes : \A text \in AudioTexts :
            AudioFrame(p, n, text, MaxSpeech) =>
                LET k == <<proc[p].m, proc[p].uid>> IN
                IF BufferOf(k) + n >= 2 * CHUNK_DURATION /\ text # ""
                THEN /\ player_answers' =
                            (k :> (AnswersOf(k) \o <<text>>)) @@ player_answers
                     /\ \A q \in ProcIds :
                            outbox'[q] =
                                IF q \in SocketsOf(proc[p].m)
                                THEN Append(outbox[q],
                                        [type |-> "transcription",
                                         body |-> <<proc[p].uid, text>>])
                                ELSE outbox[q]
                ELSE player_answers' = player_answers /\ outbox' = outbox
        /\ \A k \in DOMAIN handed' : GraderCalled(k) =>
                handed'[k][Len(handed'[k])] = HeardOf(k) ]_vars

----------------------------------------------------------------------------
(* Properties of broadcast_to_room *)

\* how often the message of the present call was written to socket p
TimesWritten(p) ==
    Cardinality({i \in 1..Len(outbox[p]) :
        outbox[p][i].type = "message" /\ outbox[p][i].body = bcast.msg})

\* socket p was registered for the room of the call when it was made, for a
\* player other than the excluded one
Addressed(p) ==
    /\ bcast.m \in DOMAIN bcast.at
    /\ \E u \in DOMAIN bcast.at[bcast.m] :
            u # bcast.exclude /\ bcast.at[bcast.m][u] = p

\* C17: a call of broadcast_to_room writes its message to no socket more
\* than once and to no socket but those registered for the room (for a
\* player other than the excluded one) when it was called, so to no socket
\* of another room and to none at all for a room without registry entry;
\* when it has returned and no send has failed, each of those sockets has
\* been written exactly once.
BroadcastExact ==
    /\ \A p \in ProcIds : TimesWritten(p) = 0 \/ (TimesWritten(p) = 1 /\ Addressed(p))
    /\ (bcast.pc = "done" /\ bcast.failed = {}) =>
            \A p \in ProcIds : Addressed(p) => TimesWritten(p) = 1

\* a call for M1 that excludes u1 has returned: two sockets were registered,
\* the other player's was written and the excluded player's was not
BroadcastExcluded ==
    /\ bcast.pc = "done" /\ bcast.failed = {}
    /\ bcast.m = M1 /\ bcast.exclude = "u1"
    /\ M1 \in DOMAIN bcast.at /\ DOMAIN bcast.at[M1] = {"u1", "u2"}
    /\ TimesWritten(bcast.at[M1]["u2"]) = 1
    /\ TimesWritten(bcast.at[M1]["u1"]) = 0

\* C18: a send that fails does not end the broadcast: the call never leaves
\* with an exception, and when it has returned every addressed socket whose
\* send did not fail has been written once.
BroadcastSurvivesFailure ==
    /\ bcast.pc # "raised"
    /\ bcast.pc = "done" =>
            \A p \in ProcIds :
                (Addressed(p) /\ p \notin bcast.failed) => TimesWritten(p) = 1

\* a call has returned in which one send failed and another socket was
\* written
BroadcastAfterFailure ==
    /\ bcast.pc = "done"
    /\ bcast.failed # {}
    /\ \E p \in ProcIds : Addressed(p) /\ p \notin bcast.failed /\ TimesWritten(p) = 1

----------------------------------------------------------------------------
(* Properties of matchmaking *)

\* C13: the two players of every room in the store are different users
DistinctPlayers ==
    \A m \in DOMAIN roomStore :
        {"player1_uid", "player2_uid"} \subseteq DOMAIN roomStore[m]
            => roomStore[m]["player1_uid"] # roomStore[m]["player2_uid"]

CreatePcs == {"c_hset", "c_expire", "c_sadd"}

\* C6: as long as no dequeue removed an entry and no room creation failed,
\* the k-th published match pairs the (2k-1)-th and the 2k-th enqueued uid
FifoPairing ==
    (~mmHist.removed /\ mmHist.fails = 0) =>
        \A k \in 1..Len(channel) :
            /\ 2 * k <= Len(enqLog)
            /\ channel[k].players = <<enqLog[2 * k - 1], enqLog[2 * k]>>

\* u1, u2, u3, u4 were enqueued in this order and two matches published
FifoPairingReached ==
    /\ enqLog = <<"u1", "u2", "u3", "u4">>
    /\ ~mmHist.removed /\ mmHist.fails = 0
    /\ Len(channel) = 2
    /\ channel[1].players = <<"u1", "u2">>
    /\ channel[2].players = <<"u3", "u4">>

\* C7: a failed room creation is followed by the push of the first popped
\* uid at the tail of the queue, then of the second, and the cycle ends
\* with no message published since it began
RequeueAfterFailure ==
    /\ [][(mm.pc \in CreatePcs /\ mm'.pc \notin CreatePcs \cup {"publish"})
            => (mm'.pc = "requeue1" /\ UNCHANGED <<queue, channel>>)]_vars
    /\ [][(mm.pc = "requeue1" /\ mm' # mm)
            => /\ queue' = Append(queue, mm.p1)
               /\ mm'.pc = "requeue2"
               /\ channel' = channel]_vars
    /\ [][(mm.pc = "requeue2" /\ mm' # mm)
            => /\ queue' = Append(queue, mm.p2)
               /\ mm'.pc = "idle"
               /\ Len(channel') = mm.chan0]_vars

\* the creation of the room of u1 and u2 failed: both are queued again, in
\* the order they were popped, and nothing was published
RequeuedReached ==
    /\ mm.pc = "idle"
    /\ mmHist.fails = 1 /\ ~mmHist.removed
    /\ enqLog = <<"u1", "u2">>
    /\ queue = <<"u1", "u2">>
    /\ channel = <<>>

(* C29 *)
\* C29: once the room has a question, no step changes question_id or
\* question_text
QuestionWrittenOnce ==
    [][\A m \in DOMAIN roomStore :
            QuestionOf(m) # "-" =>
                /\ QuestionOf(m)' = QuestionOf(m)
                /\ Get(Hash(roomStore, m), "question_text", "-")'
                        = Get(Hash(roomStore, m), "question_text", "-")
      ]_vars

(* C35 *)
\* the step is the hset of create_match_room
CreatesRoom == mm.pc = "c_hset" /\ mm'.pc = "c_expire"

\* C35: the match id of a pairing, made of the two uids and the whole
\* seconds of the store's clock, is the id of no room created before it:
\* create_match_room never writes over the record of an earlier pairing
MatchIdsDiffer ==
    [][CreatesRoom =>
            /\ mm.m \notin DOMAIN roomPlayers
            /\ mm.m \notin DOMAIN roomStore
            /\ \A m \in DOMAIN roomStore : roomStore'[m] = roomStore[m]]_vars

\* u1 and u2 have been paired twice, in this order, and have two rooms
MatchIdsDifferReached ==
    \E m1, m2 \in DOMAIN roomPlayers :
        /\ m1 # m2
        /\ roomPlayers[m1] = <<"u1", "u2">>
        /\ roomPlayers[m2] = <<"u1", "u2">>
        /\ {m1, m2} \subseteq DOMAIN roomStore

(* C36 *)
\* the step ends a cycle that popped two uids
PairCycleEnds == mm.p2 # None /\ mm.pc # "idle" /\ mm'.pc = "idle"
\* the cycle has published an event that names u, for a room that exists
NamedInEvent(u, chan, store) ==
    \E i \in (mm.chan0 + 1)..Len(chan) :
        /\ \E k \in 1..2 : chan[i].players[k] = u
        /\ chan[i].match_id \in DOMAIN store
Queued(q, u) == \E i \in 1..Len(q) : q[i] = u

\* C36: when a cycle that popped two uids ends, each of them is named in a
\* match event the cycle published for a room it created, or is in the
\* queue again, whichever store command after the pops raised
NoPoppedPlayerLost ==
    [][PairCycleEnds =>
            \A u \in {mm.p1, mm.p2} :
                NamedInEvent(u, channel', roomStore') \/ Queued(queue', u)]_vars

(* C37 *)
\* an event that names u has been published
EventFor(u) ==
    \E i \in 1..Len(channel) : \E k \in 1..2 : channel[i].players[k] = u
\* the handler of u has sent its client a match_found message
Told(u) ==
    LET j == joins[ConnOf(u)] IN
    /\ j.pc \in {"matched", "done"}
    /\ \E i \in 1..Len(j.sent) : j.sent[i].status = "match_found"
\* every match_found message a handler has sent is that of a published
\* event: its match id, and the other player of the event as partner
ToldRight ==
    \A u \in ListenUsers :
        LET j == joins[ConnOf(u)] IN
        j.pc \in {"listening", "matched", "done"} =>
            \A i \in 1..Len(j.sent) :
                \E n \in 1..Len(channel) :
                    /\ j.sent[i].match_id = channel[n].match_id
                    /\ j.sent[i].partner # u
                    /\ channel[n].players \in
                            {<<u, j.sent[i].partner>>, <<j.sent[i].partner, u>>}

\* C37: a player the join handler has enqueued and who stays connected is
\* sent a match_found message once an event that names the player is
\* published, however the handler's enqueue and subscribe interleave with
\* the polling task; the two players of an event are told its match id and
\* each other as partner
MatchFoundDelivered ==
    /\ []ToldRight
    /\ \A u \in ListenUsers : EventFor(u) ~> Told(u)

(* C39 *)
RecordFields == {"player1_uid", "player2_uid", "question_id"}

\* C39: when the countdown of a room has ended, the room's record still
\* holds the players and the question: the grading pass reads them, and
\* Completed is written onto the full record, not onto one whose key
\* reached the end of its TTL during the match
RecordOutlivesMatch ==
    [][\A t \in TimerIds :
            (timers[t].pc \in {"g_read", "u_status"} /\ timers'[t] # timers[t])
            => RecordFields \subseteq DOMAIN get_match_room(roomStore, timers[t].m)]_vars

(* C40 *)
\* the audio in the buffer of key, in half seconds
Buffered(buffers, key) == IF key \in DOMAIN buffers THEN buffers[key] ELSE 0
Threshold == 2 * CHUNK_DURATION

\* C40: when a call of process_audio_chunk has returned, the player's
\* buffer holds less audio than CHUNK_DURATION seconds: the buffer is
\* transcribed exactly when the audio in it, the new chunk included,
\* reaches CHUNK_DURATION seconds, and is then left with the last half
\* second of it, or empty when the transcription raised; below that the
\* chunk is only appended
BufferBelowThreshold ==
    /\ [](\A key \in DOMAIN audio_buffers : audio_buffers[key] < Threshold)
    /\ [][\A n \in ChunkUnits :
            LET key == <<proc["w1"].m, proc["w1"].uid>>
                total == Buffered(audio_buffers, key) + n
            IN
            (WsAudio("w1", n) \/ WsAudioFail("w1", n)) =>
                /\ total < Threshold =>
                        /\ audio_buffers'[key] = total
                        /\ UNCHANGED <<heard, player_answers, outbox>>
                /\ total >= Threshold =>
                        audio_buffers'[key] = IF WsAudioFail("w1", n) THEN 0 ELSE 1
         ]_vars

\* u1 has sent 4 seconds of audio: the buffer was transcribed, a text heard,
\* and the buffer holds the last half second
BufferBelowThresholdReached ==
    LET key == <<M1, "u1">> IN
    /\ proc["w1"].pc = "ws_loop"
    /\ Buffered(audio_buffers, key) = 1
    /\ key \in DOMAIN heard /\ Len(heard[key]) = 1

(* C33 *)
Persisted(store, m) == PyInt(Hash(store, m)["time_remaining"])
\* the decrease the countdown makes at tr seconds
Decrease(tr) == IF tr > 30 THEN 10 ELSE IF tr > 10 THEN 5 ELSE 1
\* msg is the first message written to socket p in the step
FirstSent(p, msg) ==
    /\ Len(outbox'[p]) > Len(outbox[p])
    /\ outbox'[p][Len(outbox[p]) + 1] = msg

\* C33: every iteration of an uninterrupted countdown writes the current
\* time_remaining to the room and sends it as time_update to the connected
\* players, then decreases it by 10 above 30 seconds, by 5 from 11 to 30, by
\* 1 up to 10, to a value that is not negative; each value written is lower
\* than the one before; the loop is left at zero, and the task ends
CountdownDecreases ==
    /\ [][\A t \in TimerIds :
            (timers[t].pc = "tick" /\ timers'[t] # timers[t]) =>
                LET tr == timers[t].tr
                    m == timers[t].m
                IN
                /\ Persisted(roomStore', m) = tr
                /\ "time_remaining" \in DOMAIN Hash(roomStore, m)
                        => tr < Persisted(roomStore, m)
                /\ FirstSent("w1", TimeUpdate(tr))
                /\ FirstSent("w2", TimeUpdate(tr))
                /\ timers'[t].tr = tr - Decrease(tr)
                /\ timers'[t].tr >= 0
                /\ timers'[t].pc # "tick" <=> timers'[t].tr = 0
         ]_vars
    /\ <>(\A t \in TimerIds : TimerDone(t))

\* a match of 37 seconds has counted down to 5
CountdownReached ==
    /\ timers[1].pc = "tick" /\ timers[1].tr = 5
    /\ outbox["w1"] # <<>> /\ outbox["w1"][1] = TimeUpdate(37)
    /\ Persisted(roomStore, M1) = 6

(* C34 *)
WarningsOf(p) == SelectSeq(outbox[p], LAMBDA x : x.type = "time_warning")
AllWarnings == <<TimeWarning(60), TimeWarning(30), TimeWarning(10)>>
\* the countdown has gone past the iteration of n seconds
Past(n) == timers[1].pc = "tick" => timers[1].tr < n

\* what a player is sent in an uninterrupted match of d seconds: the
\* time_warning messages are those of 60, 30 and 10 seconds, in this order
\* and once each, each right after the time_update of the same value
WarningsIn(d) ==
    \A p \in {"w1", "w2"} :
        (outbox[p] # <<>> /\ outbox[p][1] = TimeUpdate(d)) =>
            /\ WarningsOf(p) =
                    SubSeq(AllWarnings, 1,
                           IF Past(10) THEN 3 ELSE IF Past(30) THEN 2
                           ELSE IF Past(60) THEN 1 ELSE 0)
            /\ \A i \in 1..Len(outbox[p]) :
                    outbox[p][i].type = "time_warning" =>
                        /\ i > 1
                        /\ outbox[p][i - 1] = TimeUpdate(outbox[p][i].body)

\* C34: the uninterrupted countdown of a match, which lasts 420 seconds,
\* sends each player a time_warning exactly once at each of 60, 30 and 10
\* seconds, each with the time_update of the same value, and at no other
\* value
WarningsAt60And30And10 == WarningsIn(MATCH_DURATION_SECONDS)

\* the same of a countdown that starts at the 420 seconds of the comment
\* on MATCH_DURATION_SECONDS
WarningsOfSevenMinutes == WarningsIn(420)

(* C32 *)
InErrorHandler(t) == timers[t].region = "error" /\ TimerRunning(t)
GradingPcs == {"g_read", "g_wait", "g_bcast"}

\* C32: a timer task enters the handler of an unexpected failure at the
\* grading pass when grading has not completed, else at update_room_status;
\* the grading pass of the handler, also one that fails, is followed by
\* update_room_status, which writes Completed; and the task ends only after
\* that, with the failure as its result
FailureGradesThenCompletes ==
    [][\A t \in TimerIds :
          /\ (timers[t].region = "try" /\ timers'[t].region = "error"
                    /\ TimerRunning(t)')
                => timers'[t].pc = IF timers[t].gc THEN "u_status" ELSE "g_read"
          /\ (InErrorHandler(t) /\ timers[t].pc \in GradingPcs
                    /\ timers'[t] # timers[t])
                => timers'[t].pc \in {"g_wait", "g_bcast", "u_status"}
                        /\ timers'[t].region = "error"
          /\ (InErrorHandler(t) /\ timers[t].pc = "u_status"
                    /\ timers'[t] # timers[t])
                => StatusOf(timers[t].m)' = COMPLETED
                        /\ timers'[t].pc = "u_srem"
          /\ (InErrorHandler(t) /\ TimerDone(t)')
                => timers[t].pc \in {"u_srem", "u_await"}
                        /\ timers'[t].result = "error"
      ]_vars

\* a timer task has ended with a failure as its result after its handler's
\* grading pass failed on a record without the player fields, and the
\* room is Completed
FailureGradesThenCompletesReached ==
    \E t \in TimerIds :
        /\ TimerDone(t) /\ timers[t].result = "error"
        /\ StatusOf(timers[t].m) = COMPLETED
        /\ "question_id" \in DOMAIN Hash(roomStore, timers[t].m)
        /\ "player1_uid" \notin DOMAIN Hash(roomStore, timers[t].m)

(* C31 *)
TimerEntries == {active_timers[m] : m \in DOMAIN active_timers}
Terminates(t) == TimerRunning(t) /\ TimerDone(t)'

\* C31: no entry of active_timers names a timer task that has terminated;
\* and the step in which a timer task terminates leaves the entry of every
\* other task in place
TimerTableClean ==
    /\ [](\A t \in TimerEntries : ~TimerDone(t))
    /\ [][\A t \in TimerIds :
            Terminates(t) =>
                \A m \in DOMAIN active_timers :
                    active_timers[m] # t =>
                        /\ m \in DOMAIN active_timers'
                        /\ active_timers'[m] = active_timers[m]
         ]_vars

(* C26 *)
\* the queue q without its 2 * k oldest entries
Rest(q, k) == SubSeq(q, 2 * k + 1, Len(q))
OldestPair(q, k) == <<q[2 * k - 1], q[2 * k]>>

\* C26: a cycle of try_match_players that finds fewer than two uids ends
\* with the queue, the channel and the store unchanged; a cycle that finds
\* two or more ends with exactly one more message published, which names
\* the two oldest uids, and with the queue being what it was without these
\* two, in the same order
OneCyclePairsTheTwoOldest ==
    /\ [](mm.pc = "idle" =>
            /\ queue = Rest(enqLog, Len(channel))
            /\ \A k \in 1..Len(channel) :
                    channel[k].players = OldestPair(enqLog, k))
    /\ [][(mm.pc = "llen" /\ mm'.pc # "llen") =>
            IF Len(queue) < 2
            THEN mm'.pc = "idle"
                    /\ UNCHANGED <<queue, channel, roomStore, active_rooms>>
            ELSE mm'.pc = "lpop1" /\ mm'.chan0 = Len(channel)]_vars
    /\ [][(mm.pc \notin {"idle", "llen"} /\ mm'.pc = "idle") =>
            /\ Len(channel') = mm.chan0 + 1
            /\ channel'[Len(channel')].players = <<mm.p1, mm.p2>>
            /\ queue' = Rest(enqLog, Len(channel'))]_vars

\* the queue was u2, u1, u4, u3 and one cycle has run: u2 and u1 are paired,
\* u4 and u3 are left in this order
OneCycleReached ==
    /\ enqLog = <<"u2", "u1", "u4", "u3">>
    /\ mm.pc = "idle"
    /\ Len(channel) = 1 /\ channel[1].players = <<"u2", "u1">>
    /\ queue = <<"u4", "u3">>

(* C30 *)
\* C30: when the first pop of a cycle gave a uid and the second gave
\* nothing, the next step of the cycle pushes the first uid back on the
\* queue, and the cycle ends there: no room was created and nothing was
\* published since it began
LonePopPutBack ==
    /\ [][(mm.pc = "lpop2" /\ mm' # mm /\ mm.p1 # None /\ queue = <<>>)
            => (mm'.pc = "lpush" /\ mm'.p1 = mm.p1
                    /\ UNCHANGED <<queue, channel, roomStore, active_rooms>>)]_vars
    /\ [][(mm.pc = "lpush" /\ mm' # mm)
            => /\ queue' = <<mm.p1>> \o queue
               /\ mm'.pc = "idle"
               /\ Len(channel') = mm.chan0
               /\ UNCHANGED <<roomStore, active_rooms>>]_vars

\* u1 is in the queue again after its handler's cleanup found nothing to
\* remove, and nothing was published: the cycle that had popped u1 found
\* no second uid and pushed u1 back
LonePopPutBackReached ==
    /\ mm.pc = "idle"
    /\ "u1" \in mmHist.left /\ queue = <<"u1">>
    /\ channel = <<>> /\ roomStore = <<>>

(* C23 *)
InQueue(u) == \E i \in 1..Len(queue) : queue[i] = u

\* C23: a uid whose /ws/join handler has run its cleanup (dequeue_player) and
\* that has not joined again is not in the queue, so no later cycle pops and
\* pairs it
DisconnectedNotQueued == \A u \in mmHist.left : ~InQueue(u)

----------------------------------------------------------------------------
(* Properties of the receive loop and of handle_room_message *)

ErrorReply == [type |-> "error", body |-> "Invalid message format"]
RegisteredAs(p) ==
    /\ proc[p].m \in DOMAIN active_connections
    /\ proc[p].uid \in DOMAIN active_connections[proc[p].m]
    /\ active_connections[proc[p].m][proc[p].uid] = p
TakesFrame(p) == \E frame \in TextFrames : WsText(p, frame)

\* C24: a text frame that is not JSON is answered with one
\* {"error": "Invalid message format"} on the sender's socket and with
\* nothing else, to nobody else; after any text frame, also one whose
\* handling raised, the handler is still in its receive loop and the
\* registry is as before
InvalidJsonAnswered ==
    [][\A p \in WsIds :
          /\ WsText(p, NotJson) =>
                /\ outbox'[p] = Append(outbox[p], ErrorReply)
                /\ \A q \in ProcIds \ {p} : outbox'[q] = outbox[q]
                /\ UNCHANGED <<roomVars, mmVars, bcast, auVars>>
          /\ TakesFrame(p) =>
                /\ proc'[p] = proc[p] /\ proc[p].pc = "ws_loop"
                /\ active_connections' = active_connections
      ]_vars

\* u1 sent a frame that is not JSON and then a chat message: its socket got
\* the error reply and then the chat, and is still registered and receiving
InvalidJsonAnsweredReached ==
    /\ proc["w1"].pc = "ws_loop" /\ RegisteredAs("w1")
    /\ Len(outbox["w1"]) = 2
    /\ outbox["w1"][1] = ErrorReply
    /\ outbox["w1"][2].type = "chat"
    /\ outbox["w2"] = <<>>

(* C25 *)
Closed == {COMPLETED, ABANDONED}
TimersLeft(m) ==
    {t \in TimerIds : timers[t].pc \notin {"none", "done"} /\ timers[t].m = m}
UpdateReturns(t) ==
    /\ timers[t].pc \in {"u_srem", "u_await"}
    /\ timers'[t].pc \notin {"u_srem", "u_await"}

\* C25: no room whose status is Completed or Abandoned is in the set of
\* active rooms; and when update_room_status(Completed) returns to the timer
\* task that called it, completed_at is set, the room is not in the set and
\* no other timer task of the room is still running
ClosedRoomCleanedUp ==
    /\ [](\A m \in active_rooms : StatusOf(m) \notin Closed)
    /\ [][\A t \in TimerIds :
            UpdateReturns(t) =>
                /\ "completed_at" \in DOMAIN Hash(roomStore', timers[t].m)
                /\ timers[t].m \notin active_rooms'
                /\ TimersLeft(timers[t].m)' \subseteq {t}
         ]_vars

(* C27 *)
\* the sockets registered for room m, but the one of player exclude
Registered(m, exclude) ==
    IF m \notin DOMAIN active_connections THEN {}
    ELSE {active_connections[m][u] :
            u \in {v \in DOMAIN active_connections[m] : v # exclude}}
\* msg is written once to each of the sockets and nothing is written to any
\* other socket
DeliveredTo(sockets, msg) ==
    \A q \in ProcIds :
        outbox'[q] = IF q \in sockets THEN Append(outbox[q], msg) ELSE outbox[q]
SentBy(p, type, x) == WsText(p, JsonObject(type, x))

\* C27: a chat message goes to every socket registered for the room, the
\* sender's included; signal, start_audio and stop_audio go to the sockets
\* of the other player only, not to the sender; a message of an unknown
\* type sends nothing and changes nothing
RoomMessagesRouted ==
    [][\A p \in WsIds : \A x \in Payloads :
          LET u == proc[p].uid
              m == proc[p].m
          IN
          /\ SentBy(p, "chat", x) =>
                /\ DeliveredTo(Registered(m, None),
                        [type |-> "chat",
                         body |-> <<u, IF x = None THEN "" ELSE x>>])
                /\ Len(outbox'[p]) = Len(outbox[p]) + 1
          /\ SentBy(p, "signal", x) =>
                /\ DeliveredTo(Registered(m, u),
                        [type |-> "signal", body |-> <<u, x>>])
                /\ outbox'[p] = outbox[p]
          /\ SentBy(p, "start_audio", x) =>
                /\ DeliveredTo(Registered(m, u),
                        [type |-> "player_speaking", body |-> <<u, TRUE>>])
                /\ outbox'[p] = outbox[p]
          /\ SentBy(p, "stop_audio", x) =>
                /\ DeliveredTo(Registered(m, u),
                        [type |-> "player_speaking", body |-> <<u, FALSE>>])
                /\ outbox'[p] = outbox[p]
          /\ SentBy(p, "bogus", x) =>
                UNCHANGED <<roomVars, mmVars, outbox, bcast, auVars>>
      ]_vars

\* u1 sent a chat message and a signal while u2 was connected: u1's socket
\* got the chat only, u2's socket got both
RoomMessagesRoutedReached ==
    /\ RegisteredAs("w1") /\ RegisteredAs("w2")
    /\ Len(outbox["w1"]) = 1 /\ outbox["w1"][1].type = "chat"
    /\ Len(outbox["w2"]) = 2
    /\ outbox["w2"][1].type = "chat" /\ outbox["w2"][2].type = "signal"
    /\ outbox["w2"][2].body = <<"u1", "x">>

(* C28 *)
\* C28: a facial_tracking message goes, with its payload and the sender's
\* uid, to the sockets of the other player only: to exactly one socket when
\* the opponent is connected, and not to the sender
FacialTrackingForwarded ==
    [][\A p \in WsIds : \A x \in Payloads :
          SentBy(p, "facial_tracking", x) =>
                /\ DeliveredTo(Registered(proc[p].m, proc[p].uid),
                        [type |-> "facial_tracking", body |-> <<proc[p].uid, x>>])
                /\ outbox'[p] = outbox[p]
      ]_vars


(* C38 *)
\* the handler of socket p is running (between accept and its end)
Open(p) == proc[p].kind = "ws" /\ proc[p].pc \notin {"idle", "done"}
\* q is another connection of the same player to the same room
SamePlayer(p, q) ==
    q # p /\ proc[q].kind = "ws" /\ proc[q].m = proc[p].m /\ proc[q].uid = proc[p].uid

\* C38: a connection in its receive loop is registered under its own
\* socket, and stays so when an earlier connection of the same player to
\* the room ends: the cleanup of the earlier connection removes that
\* connection's socket only, and the live one is still sent the broadcasts
LiveConnectionStaysRegistered ==
    [][\A p, q \in WsIds :
            (Open(p) /\ ~Open(p)' /\ SamePlayer(p, q)
                /\ proc[q].pc = "ws_loop" /\ RegisteredAs(q))
            => RegisteredAs(q)']_vars

=============================================================================
